---- MODULE Spec2Model ----
(***************************************************************************)
(* Command dispatch and scheduled broadcast engine of the Telegram         *)
(* auto-messaging bot (src/bot.js): the inbound message handler, the       *)
(* /autosend wizard, the recurring timers and the paced broadcast loop.    *)
(* Text is a sequence of one-character strings, so that split, trim,       *)
(* replace and the interval pattern are computed as the code computes      *)
(* them. Time is in milliseconds.                                          *)
(***************************************************************************)
EXTENDS Integers, Sequences, FiniteSets, TLC

(***************************************************************************)
(* Bounds of the model.                                                    *)
(***************************************************************************)
\* inbound messages dispatched in one run
MaxMsgs == 4
\* timers created in one run
MaxJobs == 2
\* ticks of one timer in one run
MaxFires == 2
\* handler and timer-callback invocations suspended at the same time
MaxInFlight == 2
\* the clock stops advancing here
MaxTime == 10000
\* the largest whole number of an interval text
MaxWhole == 30
\* the longest interval text made of every combination of characters
MaxIntervalLen == 3

\* the groups and channels of a /has listing
MaxGroups == 30

\* the longest title and the longest username of a group
MaxTitle == 255

MaxUsername == 32

(***************************************************************************)
(* Program constants.                                                      *)
(***************************************************************************)
\* config.messageDelay
messageDelay == 5000
\* the allow-list of the gated dispatcher variant; caller ids are written as
\* their decimal text (senderId.toString()), being wider than 32 bits
allowedUserIds == {"7968867231", "1016048363"}
\* the largest delay the Node.js timer accepts; above it the delay becomes 1
TIMEOUT_MAX == 2147483647

(***************************************************************************)
(* Strings.                                                                *)
(***************************************************************************)
WS == {" ", "\t", "\n"}
Digits == <<"0", "1", "2", "3", "4", "5", "6", "7", "8", "9">>
UpperLetters == <<"A","B","C","D","E","F","G","H","I","J","K","L","M",
                  "N","O","P","Q","R","S","T","U","V","W","X","Y","Z">>
LowerLetters == <<"a","b","c","d","e","f","g","h","i","j","k","l","m",
                  "n","o","p","q","r","s","t","u","v","w","x","y","z">>

IsDigit(ch) == \E i \in 1..10 : Digits[i] = ch
DigitVal(ch) == (CHOOSE i \in 1..10 : Digits[i] = ch) - 1

\* the character as written
SameChar(ch) == ch

\* String.prototype.toLowerCase, one character
LowerChar(ch) ==
  IF \E i \in 1..26 : UpperLetters[i] = ch
  THEN LowerLetters[CHOOSE i \in 1..26 : UpperLetters[i] = ch]
  ELSE ch

toLowerCase(s) == [i \in 1..Len(s) |-> LowerChar(s[i])]

startsWith(s, p) == Len(s) >= Len(p) /\ SubSeq(s, 1, Len(p)) = p

RECURSIVE trimStart(_)
trimStart(s) ==
  IF s # <<>> /\ s[1] \in WS THEN trimStart(Tail(s)) ELSE s

RECURSIVE trimEnd(_)
trimEnd(s) ==
  IF s # <<>> /\ s[Len(s)] \in WS THEN trimEnd(SubSeq(s, 1, Len(s) - 1)) ELSE s

\* String.prototype.trim
trim(s) == trimEnd(trimStart(s))

\* String.prototype.split with a one-character separator
RECURSIVE splitAcc(_, _, _, _)
splitAcc(s, sep, cur, acc) ==
  IF s = <<>> THEN Append(acc, cur)
  ELSE IF s[1] = sep THEN splitAcc(Tail(s), sep, <<>>, Append(acc, cur))
  ELSE splitAcc(Tail(s), sep, Append(cur, s[1]), acc)

split(s, sep) == splitAcc(s, sep, <<>>, <<>>)

\* Array.prototype.join with a separator string
RECURSIVE join(_, _)
join(parts, sep) ==
  IF parts = <<>> THEN <<>>
  ELSE IF Len(parts) = 1 THEN parts[1]
  ELSE parts[1] \o sep \o join(Tail(parts), sep)

\* Array.prototype.slice(from), from counted from 0
slice(parts, from) ==
  IF from >= Len(parts) THEN <<>> ELSE SubSeq(parts, from + 1, Len(parts))

\* String.prototype.indexOf, counted from 1; 0 when absent
indexOf(s, p) ==
  LET hits == {i \in 1..(Len(s) - Len(p) + 1) : SubSeq(s, i, i + Len(p) - 1) = p}
  IN IF hits = {} THEN 0 ELSE CHOOSE i \in hits : \A j \in hits : i <= j

\* String.prototype.replace(pattern string, ""): the first occurrence only,
\* compared case-sensitively
replaceFirst(s, p) ==
  LET k == indexOf(s, p)
  IN IF k = 0 THEN s
     ELSE SubSeq(s, 1, k - 1) \o SubSeq(s, k + Len(p), Len(s))

\* .map((g) => g.trim()).filter((g) => g)
trimAll(parts) == [i \in 1..Len(parts) |-> trim(parts[i])]

\* a filter that keeps the empty strings
keepAll(parts) == parts

nonEmpty(parts) == SelectSeq(parts, LAMBDA g : g # <<>>)

(***************************************************************************)
(* Interval parser (parseIntervalText) and the timer delay of setInterval. *)
(***************************************************************************)
RECURSIVE pow10(_)
pow10(n) == IF n = 0 THEN 1 ELSE 10 * pow10(n - 1)

RECURSIVE natOf(_)
natOf(ds) ==
  IF ds = <<>> THEN 0 ELSE 10 * natOf(SubSeq(ds, 1, Len(ds) - 1)) + DigitVal(ds[Len(ds)])

RECURSIVE natToStr(_)
natToStr(n) ==
  IF n < 10 THEN <<Digits[n + 1]>> ELSE natToStr(n \div 10) \o <<Digits[(n % 10) + 1]>>

\* the digits of f, left-padded with zeros to width w
RECURSIVE padded(_, _)
padded(f, w) ==
  IF w = 0 THEN <<>> ELSE padded(f \div 10, w - 1) \o <<Digits[(f % 10) + 1]>>

\* drop the trailing zeros of a fraction mant / 10^scale
RECURSIVE normalize(_, _)
normalize(mant, scale) ==
  IF scale > 0 /\ mant % 10 = 0 THEN normalize(mant \div 10, scale - 1)
  ELSE [mant |-> mant, scale |-> scale]

\* `${value}`: a JavaScript number printed in decimal
numToStr(mant, scale) ==
  LET n == normalize(mant, scale)
      p == pow10(n.scale)
  IN IF n.scale = 0 THEN natToStr(n.mant)
     ELSE natToStr(n.mant \div p) \o <<".">> \o padded(n.mant % p, n.scale)

UnitLetters == {"s", "m", "h", "S", "M", "H"}

\* a pattern that only asks for a digit last
endsInDigit(b) == b # <<>> /\ IsDigit(b[Len(b)])

\* the text matched by (\d*\.?\d+): digits, at most one '.', a digit last
isNumber(b) ==
  /\ b # <<>>
  /\ IsDigit(b[Len(b)])
  /\ \A i \in 1..Len(b) : IsDigit(b[i]) \/ b[i] = "."
  /\ Cardinality({i \in 1..Len(b) : b[i] = "."}) <= 1

null == [ok |-> FALSE]

\* every unit taken as hours
millisHours(mant, scale, factorSec) ==
  LET num == mant * 3600
      den == pow10(scale)
  IN [sec |-> num \div den, ms |-> ((num % den) * 1000) \div den,
      frac |-> ((num % den) * 1000) % den # 0]

\* value * factor, for value = mant / 10^scale and a factor given in seconds:
\* whole seconds and the milliseconds left over (2,160,000,000 ms does not
\* fit 32 bits); frac tells that a part of a millisecond is left over
millis(mant, scale, factorSec) ==
  LET num == mant * factorSec
      den == pow10(scale)
  IN [sec |-> num \div den, ms |-> ((num % den) * 1000) \div den,
      frac |-> ((num % den) * 1000) % den # 0]

parseIntervalText(intervalText) ==
  LET trimmed == trim(intervalText)
      hasUnit == trimmed # <<>> /\ trimmed[Len(trimmed)] \in UnitLetters
      unit    == IF hasUnit THEN LowerChar(trimmed[Len(trimmed)]) ELSE "h"
      body    == IF hasUnit THEN trimEnd(SubSeq(trimmed, 1, Len(trimmed) - 1))
                 ELSE trimmed
      digits  == SelectSeq(body, IsDigit)
      dots    == {i \in 1..Len(body) : body[i] = "."}
      scale   == IF dots = {} THEN 0 ELSE Len(body) - (CHOOSE i \in dots : TRUE)
      mant    == natOf(digits)
      factor  == IF unit = "s" THEN 1
                 ELSE IF unit = "m" THEN 60
                 ELSE 60 * 60
  IN IF ~isNumber(body) THEN null
     ELSE IF mant = 0 THEN null
     ELSE [ok |-> TRUE, mant |-> mant, scale |-> scale, unit |-> unit,
           intervalMs |-> millis(mant, scale, factor),
           label |-> numToStr(mant, scale) \o <<unit>>]

\* setInterval(callback, intervalMs): a delay below 1 or above TIMEOUT_MAX
\* becomes 1, a fractional delay is truncated
timerDelay(intervalMs) ==
  LET tooShort == intervalMs.sec = 0 /\ intervalMs.ms = 0
      tooLong  == \/ intervalMs.sec > TIMEOUT_MAX \div 1000
                  \/ /\ intervalMs.sec = TIMEOUT_MAX \div 1000
                     /\ intervalMs.ms > TIMEOUT_MAX % 1000
  IN IF tooShort \/ tooLong THEN 1 ELSE intervalMs.sec * 1000 + intervalMs.ms

\* d milliseconds are at least the interval
atLeast(d, intervalMs) ==
  \/ d \div 1000 > intervalMs.sec
  \/ /\ d \div 1000 = intervalMs.sec
     /\ d % 1000 >= intervalMs.ms + (IF intervalMs.frac THEN 1 ELSE 0)

(***************************************************************************)
(* Message texts and callers the dispatcher is exercised with.             *)
(***************************************************************************)
SP == <<" ">>
BAR == <<"|">>
cmdSend == <<"/", "s", "e", "n", "d">>
cmdSendMulti == <<"/", "s", "e", "n", "d", "m", "u", "l", "t", "i">>
cmdAutosend == <<"/", "a", "u", "t", "o", "s", "e", "n", "d">>
cmdHelp == <<"/", "h", "e", "l", "p">>
cmdStats == <<"/", "s", "t", "a", "t", "s">>
cmdStop == <<"/", "s", "t", "o", "p", "t", "i", "m", "e", "r", "s">>
gA == <<"@", "a">>
gB == <<"@", "b">>
mHi == <<"h", "i">>
mYo == <<"y", "o">>

\* "/send @a hi"
txtSend == cmdSend \o SP \o gA \o SP \o mHi
\* "/sendmulti @a @b|hi"
txtSendMulti == cmdSendMulti \o SP \o gA \o SP \o gB \o BAR \o mHi
\* "/sendmulti @a": no '|'
txtSendMultiBad == cmdSendMulti \o SP \o gA
\* "/autosend @a @b|5s|yo"
txtAutosend == cmdAutosend \o SP \o gA \o SP \o gB \o BAR \o <<"5", "s">> \o BAR \o mYo
\* "/autosend @a|600h|yo": 2,160,000,000 ms
txtAutosendLong == cmdAutosend \o SP \o gA \o BAR \o <<"6", "0", "0", "h">> \o BAR \o mYo
\* "/autosend @a|1s": two parts only
txtAutosendShort == cmdAutosend \o SP \o gA \o BAR \o <<"1", "s">>
\* "/autosend @a|0s|yo": interval of zero
txtAutosendBad == cmdAutosend \o SP \o gA \o BAR \o <<"0", "s">> \o BAR \o mYo
\* "/autosend": starts the wizard
txtWizard == cmdAutosend
\* "@a @b": free text
txtGroups == gA \o SP \o gB
\* "5s": free text
txtInterval == <<"5", "s">>
txtHelp == cmdHelp
txtStats == cmdStats
txtStop == cmdStop
\* "/x": no such command
txtUnknown == <<"/", "x">>

\* "/send" and "/send @a": fewer than two arguments
txtSendNoArgs == cmdSend
txtSendOneArg == cmdSend \o SP \o gA
\* "/send  @a hi": two spaces after the command name
txtSendBlank == cmdSend \o SP \o SP \o gA \o SP \o mHi
\* "/send @a hi  yo": two spaces inside the message
txtSendSpaces == cmdSend \o SP \o gA \o SP \o mHi \o SP \o SP \o mYo
\* "/sendmulti @a|hi|yo": a second '|' in the message
txtSendMultiPipes == cmdSendMulti \o SP \o gA \o BAR \o mHi \o BAR \o mYo
\* "/sendmulti @a<tab>@b|hi": the targets separated by a tab
txtSendMultiTab == cmdSendMulti \o SP \o gA \o <<"\t">> \o gB \o BAR \o mHi
\* "/sendmulti |hi": no target
txtSendMultiNoTargets == cmdSendMulti \o SP \o BAR \o mHi
\* "/sendmulti @a| ": a blank message
txtSendMultiNoMessage == cmdSendMulti \o SP \o gA \o BAR \o SP
\* "/SENDMULTI @a @b|hi"
txtSendMultiUpper ==
  <<"/", "S", "E", "N", "D", "M", "U", "L", "T", "I">> \o SP \o gA \o SP \o gB \o BAR \o mHi
\* "/AutoSend @a @b|5s|yo"
txtAutosendUpper ==
  <<"/", "A", "u", "t", "o", "S", "e", "n", "d">> \o SP \o gA \o SP \o gB
    \o BAR \o <<"5", "s">> \o BAR \o mYo
\* "/autosend |5s|yo": no target
txtAutosendNoTargets == cmdAutosend \o SP \o BAR \o <<"5", "s">> \o BAR \o mYo
\* "/autosend @a|5s| ": a blank message
txtAutosendNoMessage == cmdAutosend \o SP \o gA \o BAR \o <<"5", "s">> \o BAR \o SP
\* "/autosend @a": arguments, no '|'
txtAutosendArgsOnly == cmdAutosend \o SP \o gA
\* "/autosend  @a  @b | 0.5s | yo|hi ": spaces around every part
txtAutosendSpaced ==
  cmdAutosend \o SP \o SP \o gA \o SP \o SP \o gB \o SP \o BAR \o SP
    \o <<"0", ".", "5", "s">> \o SP \o BAR \o SP \o mYo \o BAR \o mHi \o SP
\* "/autosend @a|0.0001s|yo": a tenth of a millisecond
txtAutosendTiny ==
  cmdAutosend \o SP \o gA \o BAR \o <<"0", ".", "0", "0", "0", "1", "s">> \o BAR \o mYo
\* " @a  @b ": free text with spaces around the tokens
txtGroupsSpaced == SP \o gA \o SP \o SP \o gB \o SP
\* " yo ": free text
txtMessageSpaced == SP \o mYo \o SP

\* the commands and free texts a single message is drawn from
EdgeTexts ==
  { txtSend, txtSendMulti, txtSendMultiBad, txtAutosend, txtAutosendShort,
    txtAutosendBad, txtWizard, txtGroups, txtInterval, txtHelp, txtStats,
    txtStop, txtUnknown, txtSendNoArgs, txtSendOneArg, txtSendBlank,
    txtSendMultiPipes, txtSendMultiTab, txtSendMultiNoTargets,
    txtSendMultiNoMessage, txtSendMultiUpper, txtAutosendUpper,
    txtAutosendNoTargets, txtAutosendNoMessage, txtAutosendArgsOnly,
    txtAutosendSpaced, txtAutosendTiny, txtGroupsSpaced, txtMessageSpaced,
    txtSendSpaces }

\* "/autosend @a|<interval>|yo"
piped(interval) == cmdAutosend \o SP \o gA \o BAR \o interval \o BAR \o mYo

\* interval texts: a whole number from 1 to MaxWhole and an optional unit
UnitSuffixes == {<<>>, <<"s">>, <<"m">>, <<"h">>, <<"S">>, <<"M">>, <<"H">>}
WholeTexts == {natToStr(n) \o u : n \in 1..MaxWhole, u \in UnitSuffixes}

\* interval texts: every text of up to MaxIntervalLen of these characters
IntervalAlphabet == {"0", "5", ".", "-", "s", "x", " "}
ShortTexts == UNION {[1..n -> IntervalAlphabet] : n \in 0..MaxIntervalLen}

\* "abc", "-5m", "0h"
BadTexts == {<<"a", "b", "c">>, <<"-", "5", "m">>, <<"0", "h">>}

IntervalTexts == WholeTexts \cup ShortTexts \cup BadTexts

\* the texts decoded once
Texts == {txtAutosendLong} \cup EdgeTexts

\* every text of the model
AllTexts ==
  Texts \cup IntervalTexts \cup {piped(interval) : interval \in IntervalTexts}

\* one caller of the allow-list and one that is not on it
Owner == "7968867231"
Stranger == "42"
Callers == {Owner, Stranger}

\* the inbound messages of Spec, as <<caller, text>>: every command and the
\* wizard from the owner, a /send and an /autosend from the stranger
Inbound ==
  ({Owner} \X { txtSend, txtSendMulti, txtAutosend, txtWizard, txtInterval,
               txtHelp, txtStats, txtStop, txtUnknown })
  \cup ({Stranger} \X {txtSend, txtAutosend})

\* the inbound messages of SpecLong: a job of 600 hours, and /stoptimers
InboundLong == {Owner} \X {txtAutosendLong, txtStop}

\* the inbound messages of SpecOne: any one text from the owner
InboundOne == {Owner} \X (AllTexts \ {txtAutosendLong})

(***************************************************************************)
(* State.                                                                  *)
(***************************************************************************)
VARIABLES
  now,             \* the clock, in milliseconds
  msgs,            \* inbound messages dispatched so far
  handlers,        \* the handler invocation of each inbound message
  autosendStates,  \* per-caller wizard state, keyed by senderKey
  activeTimers,    \* the timers registered, in creation order
  timers,          \* every timer setInterval has created
  ticks,           \* the callback invocation of each firing of each timer
  created,         \* timers created since the last /stoptimers
  logged,          \* the error the last step caught and logged, if any
  out,             \* the last step returned on an outgoing message
  has              \* the /has listing in progress

vars == <<now, msgs, handlers, autosendStates, activeTimers, timers, ticks, created,
          logged, out, has>>

(***************************************************************************)
(* The broadcast loop: for each target, sendMessageToGroup (getEntity,     *)
(* then sendMessage, any failure caught), then the pacing delay unless the *)
(* target is the last of the list.                                         *)
(***************************************************************************)
NoLoop ==
  [groups |-> <<>>, message |-> <<>>, skip |-> FALSE, i |-> 0, phase |-> "end",
   attempted |-> <<>>, delays |-> 0, failed |-> FALSE, wake |-> 0,
   stopAt |-> 0]

\* `if (!group) continue;` of the /sendmulti loop
blank(g) == trim(g) = <<>>

\* the first index after i the loop body runs to the send for
nextIndex(groups, i, skip) ==
  LET c == {j \in (i + 1)..Len(groups) : ~(skip /\ blank(groups[j]))}
  IN IF c = {} THEN Len(groups) + 1 ELSE CHOOSE j \in c : \A k \in c : j <= k

\* the argument of sendMessageToGroup at index j
target(groups, j, skip) == IF skip THEN trim(groups[j]) ELSE groups[j]

\* control enters the loop at index j: the call of getEntity, or the end
enter(l, j) ==
  IF j > Len(l.groups)
  THEN [l EXCEPT !.i = j, !.phase = "end", !.wake = 0]
  ELSE [l EXCEPT !.i = j, !.phase = "getEntity", !.wake = 0,
                 !.attempted = Append(@, target(l.groups, j, l.skip))]

loopStart(groups, message, skip) ==
  enter([NoLoop EXCEPT !.groups = groups, !.message = message, !.skip = skip],
        nextIndex(groups, 0, skip))

\* sendMessageToGroup has returned at time t: `if (i < groups.length - 1) await sleep`
attemptDone(l, ok, t) ==
  IF l.i < Len(l.groups)
  THEN [l EXCEPT !.phase = "sleep", !.wake = t + messageDelay,
                 !.delays = @ + 1, !.failed = @ \/ ~ok]
  ELSE [l EXCEPT !.phase = "end", !.i = @ + 1, !.failed = @ \/ ~ok]

\* a loop that a failed resolution ends
getEntityAbort(l, ok, t) ==
  IF ok THEN [l EXCEPT !.phase = "sendMessage"]
  ELSE [l EXCEPT !.phase = "end", !.failed = TRUE]

\* client.getEntity has returned: on an error the catch ends the attempt
getEntityDone(l, ok, t) ==
  IF ok THEN [l EXCEPT !.phase = "sendMessage"] ELSE attemptDone(l, FALSE, t)

\* client.sendMessage(entity) has returned or thrown
sendMessageDone(l, ok, t) == attemptDone(l, ok, t)

\* sleep(config.messageDelay) has resolved
sleepDone(l) == enter(l, nextIndex(l.groups, l.i, l.skip))

(***************************************************************************)
(* Handler invocations and timers.                                         *)
(***************************************************************************)
NoReply == [kind |-> "", n |-> 0, what |-> <<>>]

\* nothing caught; else the handler slot and the catch block that caught
NoLog == [h |-> 0, by |-> ""]

\* no /has listing in progress
NoHas == [pc |-> "none", dialogs |-> <<>>, chunks |-> <<>>, next |-> 0, sent |-> <<>>]

\* a handler without the try around its whole body
caughtByOwn(cmd, kind) ==
  IF cmd = "wizard" \/ kind = "wizStep1" THEN "none" ELSE "reply"

\* the catch block around the response call of command cmd: the wizard's
\* responses and the wizard's first step are awaited outside any try of their
\* own, so the catch of the whole handler gets their errors
caughtBy(cmd, kind) ==
  IF cmd = "wizard" \/ kind = "wizStep1" THEN "handler" ELSE "reply"

Idle ==
  [pc |-> "idle", caller |-> "", text |-> <<>>, cmd |-> "", loop |-> NoLoop,
   reply |-> NoReply, via |-> "", after |-> ""]

IdleTick == [job |-> 0, loop |-> NoLoop]

\* a wizard state; a field not yet set is empty (groups) or null (intervalInfo)
NoState == [step |-> "none", groups |-> <<>>, intervalText |-> <<>>, intervalInfo |-> null]

\* const state = { step: "groups" }
\* a wizard that starts at its second step
lateState == [NoState EXCEPT !.step = "interval"]

\* const state = { step: "groups" }
freshState == [NoState EXCEPT !.step = "groups"]

\* a handler suspended on its response call: msg.respond ("respond") or
\* client.sendMessage(senderId) ("dm"); after names what follows a success
responding(c, cmd, kind, n, what, via, after) ==
  [Idle EXCEPT !.pc = "respond", !.caller = c, !.cmd = cmd,
               !.reply = [kind |-> kind, n |-> n, what |-> what],
               !.via = via, !.after = after]

\* the targets in the opposite order
safeGroupsReversed(groups) ==
  [k \in 1..Len(nonEmpty(trimAll(groups))) |->
     nonEmpty(trimAll(groups))[Len(nonEmpty(trimAll(groups))) + 1 - k]]

\* const safeGroups = groups.map((g) => g.trim()).filter((g) => g)
safeGroups(groups) == nonEmpty(trimAll(groups))

\* the timer made by createAutoSendTimer at time t
newTimer(groups, intervalInfo, message, t) ==
  [groups |-> safeGroups(groups), message |-> message,
   intervalMs |-> intervalInfo.intervalMs, label |-> intervalInfo.label,
   delay |-> timerDelay(intervalInfo.intervalMs),
   createdAt |-> t, due |-> t + timerDelay(intervalInfo.intervalMs),
   active |-> TRUE, fires |-> 0]

\* a registration that drops a timer equal in targets, interval and message
\* to one already registered
pushTimerOnce(list, ts, id) ==
  IF \E k \in DOMAIN list :
       /\ ts[list[k]].groups = ts[id].groups
       /\ ts[list[k]].message = ts[id].message
       /\ ts[list[k]].intervalMs = ts[id].intervalMs
  THEN list
  ELSE Append(list, id)

\* activeTimers.push(timer), the timer being entry id of ts
pushTimer(list, ts, id) == Append(list, id)

\* a /stoptimers that empties the list without clearing the timers
clearNone(ts, list) == ts

\* activeTimers.forEach(clearInterval)
clearAll(ts, list) ==
  [j \in DOMAIN ts |->
     IF \E k \in DOMAIN list : list[k] = j THEN [ts[j] EXCEPT !.active = FALSE]
     ELSE ts[j]]

\* every loop in flight notes the index it was at when a /stoptimers was
\* first handled meanwhile
sawStop(l) ==
  IF l.phase = "end" \/ l.stopAt # 0 THEN l ELSE [l EXCEPT !.stopAt = l.i]

Init ==
  /\ now = 0
  /\ msgs = 0
  /\ handlers = [h \in 1..MaxInFlight |-> Idle]
  /\ autosendStates = [c \in Callers |-> NoState]
  /\ activeTimers = <<>>
  /\ timers = <<>>
  /\ ticks = [j \in 1..MaxJobs |-> [n \in 1..MaxFires |-> IdleTick]]
  /\ created = 0
  /\ logged = NoLog
  /\ out = FALSE
  /\ has = NoHas

(***************************************************************************)
(* What the handler reads from a message text.                             *)
(***************************************************************************)
parts(text) == split(text, " ")
command(text) == toLowerCase(parts(text)[1])
isCommand(text) == startsWith(text, <<"/">>)

\* /send with the empty arguments dropped before the join
sendArgsCollapsed(text) ==
  [group |-> IF Len(parts(text)) >= 2 THEN parts(text)[2] ELSE <<>>,
   customMsg |-> join(nonEmpty(slice(parts(text), 2)), SP)]

\* /send: const group = parts[1]; const customMsg = parts.slice(2).join(" ")
sendArgs(text) ==
  [group |-> IF Len(parts(text)) >= 2 THEN parts(text)[2] ELSE <<>>,
   customMsg |-> join(slice(parts(text), 2), SP)]

\* /sendmulti: const [cmdPart, contentPart] = fullText.split("|"); a missing
\* or empty contentPart is the format error
sendmultiArgs(text) ==
  LET pipe == split(text, "|")
      contentPart == IF Len(pipe) >= 2 THEN pipe[2] ELSE <<>>
  IN [ok |-> contentPart # <<>>,
      groups |-> nonEmpty(split(trim(replaceFirst(pipe[1], cmdSendMulti)), " ")),
      message |-> trim(contentPart)]

\* /autosend: partsPipe, groups, intervalInfo and the trimmed message
autosendArgs(text) ==
  LET partsPipe == split(text, "|")
      intervalPart == IF Len(partsPipe) >= 2 THEN partsPipe[2] ELSE <<>>
      messagePart == join(slice(partsPipe, 2), BAR)
  IN [n |-> Len(partsPipe),
      groups |-> nonEmpty(split(trim(replaceFirst(partsPipe[1], cmdAutosend)), " ")),
      intervalInfo |-> parseIntervalText(trim(intervalPart)),
      message |-> trim(messagePart)]

\* processAutosendWizardInput: trimmedText, read as groups and as an interval
wizardArgs(text) ==
  [trimmedText |-> trim(text),
   groups |-> nonEmpty(trimAll(split(trim(text), " "))),
   intervalInfo |-> parseIntervalText(trim(text))]

decode(text) ==
  [isCommand |-> isCommand(text), command |-> command(text),
   nparts |-> Len(parts(text)), send |-> sendArgs(text),
   sendmulti |-> sendmultiArgs(text), autosend |-> autosendArgs(text),
   wizard |-> wizardArgs(text)]

\* the texts of Texts decoded once
Decoded == [text \in Texts |-> decode(text)]

\* what the handler reads from text
decoded(text) == IF text \in Texts THEN Decoded[text] ELSE decode(text)

(***************************************************************************)
(* The message handler, up to its first suspension.                        *)
(***************************************************************************)
\* invocations suspended at an await: handlers and timer callbacks
inFlight ==
  Cardinality({h \in 1..MaxInFlight : handlers[h].pc # "idle"})
  + Cardinality({jn \in (1..MaxJobs) \X (1..MaxFires) : ticks[jn[1]][jn[2]].job # 0})

\* existingAutosendState && !text.startsWith("/")
wizardInput(c, text) == autosendStates[c] # NoState /\ ~isCommand(text)

\* an if-chain reached by every message that is not wizard input
commandOfAny(c, text) == IF ~wizardInput(c, text) THEN command(text) ELSE <<>>

\* the command name when the message reaches the if-chain, else empty
commandOf(c, text) ==
  IF ~wizardInput(c, text) /\ isCommand(text) THEN command(text)
  ELSE <<>>

\* an inbound message can be taken up
mayDispatch == msgs < MaxMsgs /\ inFlight < MaxInFlight

\* every message handled under the key of the owner
dispatchAsOwner(text, h) ==
  LET slot == CHOOSE k \in 1..MaxInFlight :
                /\ handlers[k].pc = "idle"
                /\ \A m \in 1..(k - 1) : handlers[m].pc # "idle"
  IN /\ msgs' = msgs + 1
     /\ handlers' = [handlers EXCEPT ![slot] = [h EXCEPT !.text = text, !.caller = Owner]]

\* the handler of the inbound message text suspends as h
dispatch(text, h) ==
  LET slot == CHOOSE k \in 1..MaxInFlight :
                /\ handlers[k].pc = "idle"
                /\ \A m \in 1..(k - 1) : handlers[m].pc # "idle"
  IN /\ msgs' = msgs + 1
     /\ handlers' = [handlers EXCEPT ![slot] = [h EXCEPT !.text = text]]

\* a timer started without being pushed to activeTimers
createUnregistered(groups, intervalInfo, message) ==
  /\ Len(timers) < MaxJobs
  /\ timers' = Append(timers, newTimer(groups, intervalInfo, message, now))
  /\ activeTimers' = activeTimers
  /\ created' = created + 1

\* createAutoSendTimer(groups, intervalInfo, message)
createAutoSendTimer(groups, intervalInfo, message) ==
  /\ Len(timers) < MaxJobs
  /\ timers' = Append(timers, newTimer(groups, intervalInfo, message, now))
  /\ activeTimers' = pushTimer(activeTimers, timers', Len(timers) + 1)
  /\ created' = created + 1

\* an outgoing message answered like an unknown command
OutgoingAnswered(c, text) ==
  /\ mayDispatch
  /\ dispatch(text, responding(c, "unknown", "unknown", 0, <<>>, "respond", ""))
  /\ out' = TRUE
  /\ logged' = NoLog
  /\ UNCHANGED has
  /\ UNCHANGED <<now, autosendStates, activeTimers, timers, ticks, created>>

\* if (event.message.out) return;
Outgoing(c, text) ==
  /\ msgs < MaxMsgs
  /\ msgs' = msgs + 1
  /\ out' = TRUE
  /\ logged' = NoLog
  /\ UNCHANGED has
  /\ UNCHANGED <<now, handlers, autosendStates, activeTimers, timers, ticks, created>>

\* processAutosendWizardInput, step "groups"
WizardGroups(c, text) ==
  LET groups == decoded(text).wizard.groups
  IN /\ mayDispatch
     /\ wizardInput(c, text)
     /\ autosendStates[c].step = "groups"
     /\ IF groups = <<>>
        THEN /\ dispatch(text, responding(c, "wizard", "wizNoGroups", 0, <<>>, "respond", ""))
             /\ UNCHANGED autosendStates
        ELSE /\ autosendStates' =
                  [autosendStates EXCEPT
                     ![c] = [@ EXCEPT !.groups = groups, !.step = "interval"]]
             /\ dispatch(text, responding(c, "wizard", "wizGroupsSet", Len(groups),
                                    join(groups, <<",", " ">>), "respond", ""))
     /\ out' = FALSE
     /\ logged' = NoLog
     /\ UNCHANGED has
     /\ UNCHANGED <<now, activeTimers, timers, ticks, created>>

\* processAutosendWizardInput, step "interval"
WizardInterval(c, text) ==
  LET intervalInfo == decoded(text).wizard.intervalInfo
  IN /\ mayDispatch
     /\ wizardInput(c, text)
     /\ autosendStates[c].step = "interval"
     /\ IF ~intervalInfo.ok
        THEN /\ dispatch(text, responding(c, "wizard", "wizBadInterval", 0, <<>>, "respond", ""))
             /\ UNCHANGED autosendStates
        ELSE /\ autosendStates' =
                  [autosendStates EXCEPT
                     ![c] = [@ EXCEPT !.intervalText = decoded(text).wizard.trimmedText,
                                      !.intervalInfo = intervalInfo,
                                      !.step = "message"]]
             /\ dispatch(text, responding(c, "wizard", "wizIntervalSet", 0,
                                    intervalInfo.label, "respond", ""))
     /\ out' = FALSE
     /\ logged' = NoLog
     /\ UNCHANGED has
     /\ UNCHANGED <<now, activeTimers, timers, ticks, created>>

\* processAutosendWizardInput, step "message": state.done = true is set only
\* after the response has been sent, and the handler then deletes the entry
WizardMessage(c, text) ==
  LET trimmedText == decoded(text).wizard.trimmedText
      state == autosendStates[c]
      groups == state.groups
      intervalInfo ==
        IF state.intervalInfo.ok THEN state.intervalInfo
        ELSE parseIntervalText(IF state.intervalText # <<>> THEN state.intervalText
                               ELSE <<"1", "h">>)
  IN /\ mayDispatch
     /\ wizardInput(c, text)
     /\ state.step = "message"
     /\ IF trimmedText = <<>>
        THEN /\ dispatch(text, responding(c, "wizard", "wizEmptyMsg", 0, <<>>, "respond", ""))
             /\ UNCHANGED <<activeTimers, timers, created>>
        ELSE IF groups = <<>> \/ ~intervalInfo.ok
        THEN /\ dispatch(text, responding(c, "wizard", "wizBroken", 0, <<>>, "respond", "done"))
             /\ UNCHANGED <<activeTimers, timers, created>>
        ELSE /\ createAutoSendTimer(groups, intervalInfo, trimmedText)
             /\ dispatch(text, responding(c, "wizard", "started", Len(groups),
                                    intervalInfo.label, "respond", "done"))
     /\ out' = FALSE
     /\ logged' = NoLog
     /\ UNCHANGED has
     /\ UNCHANGED <<now, autosendStates, ticks>>

\* if (!text.startsWith("/")) return;
Ignored(c, text) ==
  /\ msgs < MaxMsgs
  /\ ~wizardInput(c, text)
  /\ ~isCommand(text)
  /\ msgs' = msgs + 1
  /\ out' = FALSE
  /\ logged' = NoLog
  /\ UNCHANGED has
  /\ UNCHANGED <<now, handlers, autosendStates, activeTimers, timers, ticks, created>>

\* the handler enters a broadcast loop, or responds at once when the loop is empty
broadcasting(c, cmd, l, kind, n, what, via) ==
  IF l.phase = "end"
  THEN [responding(c, cmd, kind, n, what, via, "") EXCEPT !.loop = l]
  ELSE [Idle EXCEPT !.pc = "loop", !.caller = c, !.cmd = cmd, !.loop = l,
                    !.reply = [kind |-> kind, n |-> n, what |-> what], !.via = via]

\* /send @group message text here
CmdSend(c, text) ==
  LET a == decoded(text).send
  IN /\ mayDispatch
     /\ commandOf(c, text) = cmdSend
     /\ decoded(text).nparts >= 3
     /\ dispatch(text, broadcasting(c, "send", loopStart(<<a.group>>, a.customMsg, FALSE),
                              "sent", 0, a.group, "respond"))
     /\ out' = FALSE
     /\ logged' = NoLog
     /\ UNCHANGED has
     /\ UNCHANGED <<now, autosendStates, activeTimers, timers, ticks, created>>

\* /sendmulti group1 group2 group3|Message here
CmdSendMulti(c, text) ==
  LET a == decoded(text).sendmulti
  IN /\ mayDispatch
     /\ commandOf(c, text) = cmdSendMulti
     /\ IF ~a.ok
        THEN dispatch(text, responding(c, "sendmulti", "fmtSendmulti", 0, <<>>, "respond", ""))
        ELSE dispatch(text, broadcasting(c, "sendmulti", loopStart(a.groups, a.message, TRUE),
                                   "sentMulti", Len(a.groups), <<>>, "dm"))
     /\ out' = FALSE
     /\ logged' = NoLog
     /\ UNCHANGED has
     /\ UNCHANGED <<now, autosendStates, activeTimers, timers, ticks, created>>

\* /autosend group1 group2|interval|Message here, or the wizard start
CmdAutosend(c, text) ==
  LET a == decoded(text).autosend
  IN /\ mayDispatch
     /\ commandOf(c, text) = cmdAutosend
     /\ IF a.n = 1
        THEN /\ autosendStates' = [autosendStates EXCEPT ![c] = freshState]
             /\ dispatch(text, responding(c, "autosend", "wizStep1", 0, <<>>, "respond", ""))
             /\ UNCHANGED <<activeTimers, timers, created>>
        ELSE IF a.n < 3
        THEN /\ dispatch(text, responding(c, "autosend", "fmtAutosend", 0, <<>>, "respond", ""))
             /\ UNCHANGED <<autosendStates, activeTimers, timers, created>>
        ELSE IF ~a.intervalInfo.ok \/ a.groups = <<>> \/ a.message = <<>>
        THEN /\ dispatch(text, responding(c, "autosend", "invalidAutosend", 0, <<>>, "respond", ""))
             /\ UNCHANGED <<autosendStates, activeTimers, timers, created>>
        ELSE /\ createAutoSendTimer(a.groups, a.intervalInfo, a.message)
             /\ dispatch(text, responding(c, "autosend", "started", Len(a.groups),
                                    a.intervalInfo.label, "respond", ""))
             /\ UNCHANGED autosendStates
     /\ out' = FALSE
     /\ logged' = NoLog
     /\ UNCHANGED has
     /\ UNCHANGED <<now, ticks>>

\* /help
CmdHelp(c, text) ==
  /\ mayDispatch
  /\ commandOf(c, text) = cmdHelp
  /\ dispatch(text, responding(c, "help", "help", 0, <<>>, "respond", ""))
  /\ out' = FALSE
  /\ logged' = NoLog
  /\ UNCHANGED has
  /\ UNCHANGED <<now, autosendStates, activeTimers, timers, ticks, created>>

\* /stats: suspended on client.getMe()
CmdStats(c, text) ==
  /\ mayDispatch
  /\ commandOf(c, text) = cmdStats
  /\ dispatch(text, [Idle EXCEPT !.pc = "getMe", !.caller = c, !.cmd = "stats"])
  /\ out' = FALSE
  /\ logged' = NoLog
  /\ UNCHANGED has
  /\ UNCHANGED <<now, autosendStates, activeTimers, timers, ticks, created>>

\* the handlers and callbacks in flight when /stoptimers is handled
stopHandlers(hs) == [h \in DOMAIN hs |-> [hs[h] EXCEPT !.loop = sawStop(@)]]
\* a /stoptimers that also ends the callbacks in flight
stopTicksKill(tks) == [j \in DOMAIN tks |-> [n \in DOMAIN tks[j] |-> IdleTick]]

stopTicks(tks) ==
  [j \in DOMAIN tks |-> [n \in DOMAIN tks[j] |-> [tks[j][n] EXCEPT !.loop = sawStop(@)]]]

\* /stoptimers: activeTimers.forEach(clearInterval); activeTimers.length = 0
CmdStop(c, text) ==
  LET slot == CHOOSE k \in 1..MaxInFlight :
                /\ handlers[k].pc = "idle"
                /\ \A m \in 1..(k - 1) : handlers[m].pc # "idle"
  IN /\ mayDispatch
     /\ commandOf(c, text) = cmdStop
     /\ msgs' = msgs + 1
     /\ timers' = clearAll(timers, activeTimers)
     /\ activeTimers' = <<>>
     /\ created' = 0
     /\ handlers' = [stopHandlers(handlers) EXCEPT
                       ![slot] = [responding(c, "stoptimers", "stopped", 0, <<>>,
                                             "respond", "") EXCEPT !.text = text]]
     /\ ticks' = stopTicks(ticks)
     /\ out' = FALSE
     /\ logged' = NoLog
     /\ UNCHANGED has
     /\ UNCHANGED <<now, autosendStates>>

\* the final else of the if-chain
CmdUnknown(c, text) ==
  /\ mayDispatch
  /\ commandOf(c, text) # <<>>
  /\ ~(commandOf(c, text) = cmdSend /\ decoded(text).nparts >= 3)
  /\ commandOf(c, text) \notin {cmdSendMulti, cmdAutosend, cmdHelp, cmdStats, cmdStop}
  /\ dispatch(text, responding(c, "unknown", "unknown", 0, <<>>, "respond", ""))
  /\ out' = FALSE
  /\ logged' = NoLog
  /\ UNCHANGED has
  /\ UNCHANGED <<now, autosendStates, activeTimers, timers, ticks, created>>

(***************************************************************************)
(* The handler resumed after a suspension.                                 *)
(***************************************************************************)
\* a handler that responds as soon as its loop is at a pacing delay
afterLoopEarly(h, l) ==
  IF l.phase \in {"end", "sleep"} THEN [h EXCEPT !.pc = "respond", !.loop = l]
  ELSE [h EXCEPT !.loop = l]

\* the handler after a step of its loop: at the end of the loop it calls the
\* response
afterLoop(h, l) ==
  IF l.phase = "end" THEN [h EXCEPT !.pc = "respond", !.loop = l]
  ELSE [h EXCEPT !.loop = l]

HandlerGetEntity(h, ok) ==
  /\ handlers[h].pc = "loop"
  /\ handlers[h].loop.phase = "getEntity"
  /\ handlers' = [handlers EXCEPT
                    ![h] = afterLoop(@, getEntityDone(handlers[h].loop, ok, now))]
  /\ out' = FALSE
  /\ logged' = NoLog
  /\ UNCHANGED has
  /\ UNCHANGED <<now, msgs, autosendStates, activeTimers, timers, ticks, created>>

HandlerSendMessage(h, ok) ==
  /\ handlers[h].pc = "loop"
  /\ handlers[h].loop.phase = "sendMessage"
  /\ handlers' = [handlers EXCEPT
                    ![h] = afterLoop(@, sendMessageDone(handlers[h].loop, ok, now))]
  /\ out' = FALSE
  /\ logged' = NoLog
  /\ UNCHANGED has
  /\ UNCHANGED <<now, msgs, autosendStates, activeTimers, timers, ticks, created>>

\* a sleep that resolves at once
wokenAtOnce(l, t) == l.phase = "sleep"

\* the sleep has resolved once its delay is over
woken(l, t) == l.phase = "sleep" /\ t >= l.wake

HandlerSleep(h) ==
  /\ handlers[h].pc = "loop"
  /\ woken(handlers[h].loop, now)
  /\ handlers' = [handlers EXCEPT ![h] = afterLoop(@, sleepDone(handlers[h].loop))]
  /\ out' = FALSE
  /\ logged' = NoLog
  /\ UNCHANGED has
  /\ UNCHANGED <<now, msgs, autosendStates, activeTimers, timers, ticks, created>>

\* client.getMe() has returned: the stats text is sent, or the catch logs
HandlerGetMe(h, ok) ==
  /\ handlers[h].pc = "getMe"
  /\ handlers' = [handlers EXCEPT
                    ![h] = IF ok THEN [responding(@.caller, "stats", "stats", 0, <<>>,
                                                  "respond", "")
                                        EXCEPT !.text = handlers[h].text]
                           ELSE Idle]
  /\ out' = FALSE
  /\ logged' = IF ok THEN NoLog ELSE [h |-> h, by |-> "stats"]
  /\ UNCHANGED has
  /\ UNCHANGED <<now, msgs, autosendStates, activeTimers, timers, ticks, created>>

\* the response call has returned or thrown; the handler ends. After the
\* wizard's last response: state.done = true; autosendStates.delete(senderKey)
HandlerRespond(h, ok) ==
  /\ handlers[h].pc = "respond"
  /\ handlers' = [handlers EXCEPT ![h] = Idle]
  /\ autosendStates' =
       IF ok /\ handlers[h].after = "done"
       THEN [autosendStates EXCEPT ![handlers[h].caller] = NoState]
       ELSE autosendStates
  /\ out' = FALSE
  /\ logged' = IF ok THEN NoLog
               ELSE [h |-> h, by |-> caughtBy(handlers[h].cmd, handlers[h].reply.kind)]
  /\ UNCHANGED has
  /\ UNCHANGED <<now, msgs, activeTimers, timers, ticks, created>>

(***************************************************************************)
(* Timers: the setInterval callback of createAutoSendTimer.                *)
(***************************************************************************)
\* a timer that clearInterval does not stop
mayFireCleared(timer, t) == t >= timer.due

\* a timer whose callback waits for every callback in flight to return
mayFireAlone(timer, t) ==
  /\ timer.active
  /\ t >= timer.due
  /\ \A j \in 1..MaxJobs, n \in 1..MaxFires : ticks[j][n].job = 0

\* the callback may run: the timer has not been cleared and its delay is over
mayFire(timer, t) == timer.active /\ t >= timer.due

\* a callback that drops the first target from its second run on
tickLoopShifted(timer) ==
  loopStart(IF timer.fires > 0 THEN Tail(timer.groups) ELSE timer.groups,
            timer.message, FALSE)

\* the loop the callback runs, over the timer's own safeGroups and message
tickLoop(timer) == loopStart(timer.groups, timer.message, FALSE)

\* the callback of timer j starts and runs to its first suspension
TimerFire(j) ==
  /\ j \in DOMAIN timers
  /\ timers[j].fires < MaxFires
  /\ inFlight < MaxInFlight
  /\ mayFire(timers[j], now)
  /\ timers' = [timers EXCEPT ![j].fires = @ + 1, ![j].due = now + timers[j].delay]
  /\ ticks' = [ticks EXCEPT ![j][timers[j].fires + 1] =
                 [job |-> j, loop |-> tickLoop(timers[j])]]
  /\ out' = FALSE
  /\ logged' = NoLog
  /\ UNCHANGED has
  /\ UNCHANGED <<now, msgs, handlers, autosendStates, activeTimers, created>>

\* a callback invocation after a step of its loop: at the end it returns
afterTick(tk, l) == IF l.phase = "end" THEN IdleTick ELSE [tk EXCEPT !.loop = l]

TickGetEntity(j, n, ok) ==
  /\ ticks[j][n].loop.phase = "getEntity"
  /\ ticks' = [ticks EXCEPT
                 ![j][n] = afterTick(@, getEntityDone(ticks[j][n].loop, ok, now))]
  /\ out' = FALSE
  /\ logged' = NoLog
  /\ UNCHANGED has
  /\ UNCHANGED <<now, msgs, handlers, autosendStates, activeTimers, timers, created>>

TickSendMessage(j, n, ok) ==
  /\ ticks[j][n].loop.phase = "sendMessage"
  /\ ticks' = [ticks EXCEPT
                 ![j][n] = afterTick(@, sendMessageDone(ticks[j][n].loop, ok, now))]
  /\ out' = FALSE
  /\ logged' = NoLog
  /\ UNCHANGED has
  /\ UNCHANGED <<now, msgs, handlers, autosendStates, activeTimers, timers, created>>

TickSleep(j, n) ==
  /\ woken(ticks[j][n].loop, now)
  /\ ticks' = [ticks EXCEPT ![j][n] = afterTick(@, sleepDone(ticks[j][n].loop))]
  /\ out' = FALSE
  /\ logged' = NoLog
  /\ UNCHANGED has
  /\ UNCHANGED <<now, msgs, handlers, autosendStates, activeTimers, timers, created>>

(***************************************************************************)
(* Time passes, up to the next moment a timer or a sleep is due, once      *)
(* every callback and sleep that is due now has run.                       *)
(***************************************************************************)
deadlines ==
  {timers[j].due : j \in {k \in DOMAIN timers :
                            timers[k].active /\ timers[k].fires < MaxFires}}
  \cup {handlers[h].loop.wake : h \in {k \in 1..MaxInFlight :
                                         handlers[k].loop.phase = "sleep"}}
  \cup {ticks[jn[1]][jn[2]].loop.wake :
          jn \in {x \in (1..MaxJobs) \X (1..MaxFires) :
                    ticks[x[1]][x[2]].loop.phase = "sleep"}}

Advance ==
  LET future == {d \in deadlines : d > now /\ d <= MaxTime}
  IN /\ future # {}
     /\ \A h \in 1..MaxInFlight : ~woken(handlers[h].loop, now)
     /\ \A j \in 1..MaxJobs, n \in 1..MaxFires : ~woken(ticks[j][n].loop, now)
     /\ \A j \in DOMAIN timers :
          ~(timers[j].fires < MaxFires /\ inFlight < MaxInFlight /\ mayFire(timers[j], now))
     /\ now' = CHOOSE d \in future : \A e \in future : d <= e
     /\ out' = FALSE
     /\ logged' = NoLog
     /\ UNCHANGED has
     /\ UNCHANGED <<msgs, handlers, autosendStates, activeTimers, timers, ticks, created>>

\* the handler takes up the message text of caller c
Receive(c, text) ==
  \/ Outgoing(c, text)
  \/ WizardGroups(c, text)
  \/ WizardInterval(c, text)
  \/ WizardMessage(c, text)
  \/ Ignored(c, text)
  \/ CmdSend(c, text)
  \/ CmdSendMulti(c, text)
  \/ CmdAutosend(c, text)
  \/ CmdHelp(c, text)
  \/ CmdStats(c, text)
  \/ CmdStop(c, text)
  \/ CmdUnknown(c, text)

\* a suspended handler or timer callback resumes, a timer fires, time passes
Resume ==
  \/ \E h \in 1..MaxInFlight, ok \in BOOLEAN :
       \/ HandlerGetEntity(h, ok)
       \/ HandlerSendMessage(h, ok)
       \/ HandlerGetMe(h, ok)
       \/ HandlerRespond(h, ok)
  \/ \E h \in 1..MaxInFlight : HandlerSleep(h)
  \/ \E j \in 1..MaxJobs : TimerFire(j)
  \/ \E j \in 1..MaxJobs, n \in 1..MaxFires, ok \in BOOLEAN :
       \/ TickGetEntity(j, n, ok)
       \/ TickSendMessage(j, n, ok)
  \/ \E j \in 1..MaxJobs, n \in 1..MaxFires : TickSleep(j, n)
  \/ Advance

Next ==
  \/ \E m \in Inbound : Receive(m[1], m[2])
  \/ Resume

Spec == Init /\ [][Next]_vars

\* the bot with a job whose interval is beyond the timer's largest delay
NextLong ==
  \/ \E m \in InboundLong :
       \/ CmdAutosend(m[1], m[2])
       \/ CmdStop(m[1], m[2])
  \/ \E h \in 1..MaxInFlight, ok \in BOOLEAN : HandlerRespond(h, ok)
  \/ \E j \in 1..MaxJobs : TimerFire(j)
  \/ \E j \in 1..MaxJobs, n \in 1..MaxFires, ok \in BOOLEAN :
       \/ TickGetEntity(j, n, ok)
       \/ TickSendMessage(j, n, ok)
  \/ Advance

SpecLong == Init /\ [][NextLong]_vars

(***************************************************************************)
(* One inbound message, of any text, taken up in any state of the owner's  *)
(* wizard, and its handler run up to the first pacing delay.               *)
(***************************************************************************)
\* the wizard after the groups "@a @b", and after the interval "5s"
wizardAtInterval == [freshState EXCEPT !.groups = <<gA, gB>>, !.step = "interval"]
wizardAtMessage ==
  [wizardAtInterval EXCEPT !.intervalText = txtInterval,
                           !.intervalInfo = parseIntervalText(txtInterval),
                           !.step = "message"]
WizardStates == {NoState, freshState, wizardAtInterval, wizardAtMessage}

InitOne ==
  /\ now = 0
  /\ msgs = MaxMsgs - 1
  /\ handlers = [h \in 1..MaxInFlight |-> Idle]
  /\ \E st \in WizardStates :
       autosendStates = [c \in Callers |-> IF c = Owner THEN st ELSE NoState]
  /\ activeTimers = <<>>
  /\ timers = <<>>
  /\ ticks = [j \in 1..MaxJobs |-> [n \in 1..MaxFires |-> IdleTick]]
  /\ created = 0
  /\ logged = NoLog
  /\ out = FALSE
  /\ has = NoHas

\* the messages that may still come
pendingOne == IF msgs < MaxMsgs THEN InboundOne ELSE {}

NextOne ==
  \/ \E m \in pendingOne : Outgoing(m[1], m[2])
  \/ \E m \in pendingOne : WizardGroups(m[1], m[2])
  \/ \E m \in pendingOne : WizardInterval(m[1], m[2])
  \/ \E m \in pendingOne : WizardMessage(m[1], m[2])
  \/ \E m \in pendingOne : Ignored(m[1], m[2])
  \/ \E m \in pendingOne : CmdSend(m[1], m[2])
  \/ \E m \in pendingOne : CmdSendMulti(m[1], m[2])
  \/ \E m \in pendingOne : CmdAutosend(m[1], m[2])
  \/ \E m \in pendingOne : CmdHelp(m[1], m[2])
  \/ \E m \in pendingOne : CmdStats(m[1], m[2])
  \/ \E m \in pendingOne : CmdStop(m[1], m[2])
  \/ \E m \in pendingOne : CmdUnknown(m[1], m[2])
  \/ \E h \in 1..MaxInFlight, ok \in BOOLEAN :
       \/ HandlerGetEntity(h, ok)
       \/ HandlerSendMessage(h, ok)
       \/ HandlerGetMe(h, ok)
       \/ HandlerRespond(h, ok)

SpecOne == InitOne /\ [][NextOne]_vars

(***************************************************************************)
(* The wizards of two callers: each caller's wizard starts in any of its   *)
(* states, and MaxWizardMsgs more messages come, wizard input and commands.*)
(***************************************************************************)
MaxWizardMsgs == 3

\* " ": a text that is empty once trimmed
txtBlank == SP

\* "@a @b", "5s", " yo " and " " as wizard input; /autosend, /help and a
\* complete /autosend command as commands
InboundWizard ==
  Callers \X {txtGroups, txtInterval, txtMessageSpaced, txtBlank,
              txtWizard, txtHelp, txtAutosend}

InitWizard ==
  /\ now = 0
  /\ msgs = MaxMsgs - MaxWizardMsgs
  /\ handlers = [h \in 1..MaxInFlight |-> Idle]
  /\ autosendStates \in [Callers -> WizardStates]
  /\ activeTimers = <<>>
  /\ timers = <<>>
  /\ ticks = [j \in 1..MaxJobs |-> [n \in 1..MaxFires |-> IdleTick]]
  /\ created = 0
  /\ logged = NoLog
  /\ out = FALSE
  /\ has = NoHas

NextWizard ==
  \/ \E m \in InboundWizard :
       \/ WizardGroups(m[1], m[2])
       \/ WizardInterval(m[1], m[2])
       \/ WizardMessage(m[1], m[2])
       \/ Ignored(m[1], m[2])
       \/ CmdAutosend(m[1], m[2])
       \/ CmdHelp(m[1], m[2])
  \/ \E h \in 1..MaxInFlight, ok \in BOOLEAN : HandlerRespond(h, ok)

SpecWizard == InitWizard /\ [][NextWizard]_vars

(***************************************************************************)
(* A job whose interval is shorter than one broadcast: "@a @b" every       *)
(* second, registered and confirmed at time 0, and /stoptimers.            *)
(***************************************************************************)
\* "1s"
txtFast == <<"1", "s">>

InitFast ==
  /\ now = 0
  /\ msgs = MaxMsgs - 1
  /\ handlers = [h \in 1..MaxInFlight |-> Idle]
  /\ autosendStates = [c \in Callers |-> NoState]
  /\ activeTimers = <<1>>
  /\ timers = <<newTimer(<<gA, gB>>, parseIntervalText(txtFast), mYo, 0)>>
  /\ ticks = [j \in 1..MaxJobs |-> [n \in 1..MaxFires |-> IdleTick]]
  /\ created = 1
  /\ logged = NoLog
  /\ out = FALSE
  /\ has = NoHas

NextFast ==
  \/ CmdStop(Owner, txtStop)
  \/ \E h \in 1..MaxInFlight, ok \in BOOLEAN : HandlerRespond(h, ok)
  \/ \E j \in 1..MaxJobs : TimerFire(j)
  \/ \E j \in 1..MaxJobs, n \in 1..MaxFires, ok \in BOOLEAN :
       \/ TickGetEntity(j, n, ok)
       \/ TickSendMessage(j, n, ok)
  \/ \E j \in 1..MaxJobs, n \in 1..MaxFires : TickSleep(j, n)
  \/ Advance

SpecFast == InitFast /\ [][NextFast]_vars

(***************************************************************************)
(* /has, in the variant of the bot that has it: the listing of the groups  *)
(* and channels of the account, sent whole or in chunks. A text is the     *)
(* pieces it is made of, in order (0 the header, i the lines of group i,   *)
(* -1 the text for no groups, -2 the error text), and its length.          *)
(***************************************************************************)
\* groupsList.length > 4096
listLimit == 4096

\* (currentChunk + line).length > 4000
chunkBudget == 4000

\* the length of `📋 **Your Groups & Channels** (` and `):\n\n` together
headerLen == 35

\* a group is the length of its title and of its username text (`@...`)
longGroup == [title |-> MaxTitle, username |-> MaxUsername + 1]
shortGroup == [title |-> 1, username |-> 6]

\* the groups client.getDialogs returns: up to MaxGroups groups with long
\* titles, up to two of them with a short one instead
DialogLists ==
  UNION {{[i \in 1..n |-> IF i \in {p[1], p[2]} THEN shortGroup ELSE longGroup] :
            p \in (0..n) \X (0..n)} : n \in 0..MaxGroups}

\* the digits of n, as `${...}` writes it
digits(n) == IF n < 10 THEN 1 ELSE IF n < 100 THEN 2 ELSE 3

\* `📋 **Your Groups & Channels** (${groups.length}):\n\n`
header(n) == [pieces |-> <<0>>, len |-> headerLen + digits(n)]

\* `${idx + 1}. ${group.title}\n   ${group.username}\n`, idx + 1 being i
line(groups, i) ==
  [pieces |-> <<i>>,
   len |-> digits(i) + 2 + groups[i].title + 4 + groups[i].username + 1]

\* a + b
concat(a, b) == [pieces |-> a.pieces \o b.pieces, len |-> a.len + b.len]

\* groupsList after the lines from i on are added to acc
RECURSIVE listFrom(_, _, _)
listFrom(groups, i, acc) ==
  IF i > Len(groups) THEN acc
  ELSE listFrom(groups, i + 1, concat(acc, line(groups, i)))

groupsList(groups) == listFrom(groups, 1, header(Len(groups)))

\* a test made before the line is added
overBudgetLate(currentChunk, ln) == currentChunk.len > chunkBudget

\* (currentChunk + line).length > 4000
overBudget(currentChunk, ln) == concat(currentChunk, ln).len > chunkBudget

\* a new chunk that drops the line that did not fit
startChunkEmpty(ln) == [pieces |-> <<>>, len |-> 0]

\* currentChunk = line
startChunk(ln) == ln

\* the forEach over the groups from i on, and the push of the last chunk
RECURSIVE chunkLoop(_, _, _, _)
chunkLoop(groups, i, currentChunk, chunks) ==
  IF i > Len(groups)
  THEN IF currentChunk.len > 0 THEN Append(chunks, currentChunk) ELSE chunks
  ELSE IF overBudget(currentChunk, line(groups, i))
  THEN chunkLoop(groups, i + 1, startChunk(line(groups, i)), Append(chunks, currentChunk))
  ELSE chunkLoop(groups, i + 1, concat(currentChunk, line(groups, i)), chunks)

\* the texts /has sends for groups, in order
hasTexts(groups) ==
  IF groups = <<>> THEN <<[pieces |-> <<-1>>, len |-> 31]>>
  ELSE IF groupsList(groups).len > listLimit
  THEN chunkLoop(groups, 1, header(Len(groups)), <<>>)
  ELSE <<groupsList(groups)>>

\* /has is waiting for client.getDialogs
InitHas ==
  /\ now = 0
  /\ msgs = 1
  /\ handlers = [h \in 1..MaxInFlight |-> Idle]
  /\ autosendStates = [c \in Callers |-> NoState]
  /\ activeTimers = <<>>
  /\ timers = <<>>
  /\ ticks = [j \in 1..MaxJobs |-> [n \in 1..MaxFires |-> IdleTick]]
  /\ created = 0
  /\ logged = NoLog
  /\ out = FALSE
  /\ \E dialogs \in DialogLists :
       has = [NoHas EXCEPT !.pc = "getDialogs", !.dialogs = dialogs]

\* client.getDialogs has returned the dialogs, or thrown: the handler goes
\* on to its first response
HasGetDialogs(ok) ==
  /\ has.pc = "getDialogs"
  /\ has' = [has EXCEPT !.pc = "respond", !.next = 1,
                        !.chunks = IF ok THEN hasTexts(has.dialogs)
                                   ELSE <<[pieces |-> <<-2>>, len |-> 9]>>]
  /\ UNCHANGED <<now, msgs, handlers, autosendStates, activeTimers, timers, ticks,
                 created, logged, out>>

\* the handler after the attempts to send text has.next
hasNext(sent) ==
  IF has.next < Len(has.chunks)
  THEN [has EXCEPT !.pc = "respond", !.next = @ + 1, !.sent = sent]
  ELSE [has EXCEPT !.pc = "done", !.sent = sent]

\* msg.respond({ message: chunk }) has returned or thrown
HasRespond(ok) ==
  /\ has.pc = "respond"
  /\ has' = IF ok THEN hasNext(Append(has.sent, has.chunks[has.next]))
            ELSE [has EXCEPT !.pc = "dm"]
  /\ UNCHANGED <<now, msgs, handlers, autosendStates, activeTimers, timers, ticks,
                 created, logged, out>>

\* client.sendMessage(senderId, { message: chunk }) has returned or thrown
HasDm(ok) ==
  /\ has.pc = "dm"
  /\ has' = IF ok THEN hasNext(Append(has.sent, has.chunks[has.next]))
            ELSE hasNext(has.sent)
  /\ UNCHANGED <<now, msgs, handlers, autosendStates, activeTimers, timers, ticks,
                 created, logged, out>>

NextHas ==
  \E ok \in BOOLEAN :
    \/ HasGetDialogs(ok)
    \/ HasRespond(ok)
    \/ HasDm(ok)

SpecHas == InitHas /\ [][NextHas]_vars

(***************************************************************************)
(* Properties.                                                             *)
(***************************************************************************)
\* the invocations that may run a broadcast loop: handler h, tick n of job j
HandlerSlots == {<<"handler", h, 0>> : h \in 1..MaxInFlight}
TickSlots == {<<"tick", j, n>> : j \in 1..MaxJobs, n \in 1..MaxFires}
Slots == HandlerSlots \cup TickSlots
loopOf(s) == IF s[1] = "handler" THEN handlers[s[2]].loop ELSE ticks[s[2]][s[3]].loop

\* this step takes up an inbound message of caller c in handler h
takenUp(h, c) ==
  handlers[h].pc = "idle" /\ handlers'[h].pc # "idle" /\ handlers'[h].caller = c

\* C1: no handler invocation of a caller that is not on the allow-list has
\* started a delivery attempt to any target.
C1_UnauthorizedNeverDelivers ==
  \A h \in 1..MaxInFlight :
    (handlers[h].pc # "idle" /\ handlers[h].caller \notin allowedUserIds)
      => handlers[h].loop.attempted = <<>>

\* C2: a step that takes up a message of a caller that is not on the
\* allow-list creates no timer, cancels none and leaves every wizard state
\* as it was.
C2_UnauthorizedChangesNothing ==
  [][ \A h \in 1..MaxInFlight, c \in Callers \ allowedUserIds :
        takenUp(h, c) => UNCHANGED <<autosendStates, activeTimers, timers>> ]_vars

\* tick n of job j returns in this step
tickEnds(s) == ticks[s[2]][s[3]].job # 0 /\ ticks'[s[2]][s[3]].job = 0

\* the attempts of loop l so far are its targets up to the current one, each
\* once and in list order; a loop that has ended has attempted them all
oneAttemptEach(l) ==
  /\ Len(l.attempted) <= Len(l.groups)
  /\ \A k \in 1..Len(l.attempted) : l.attempted[k] = l.groups[k]
  /\ l.phase = "end" => l.attempted = l.groups
  /\ l.phase # "end" => Len(l.attempted) = l.i

\* C3: every broadcast loop, of a command or of a tick, attempts its targets
\* once each and in list order whatever attempts fail, and returns only when
\* the last target has been attempted.
C3_OneAttemptPerTarget ==
  /\ [](\A s \in Slots : oneAttemptEach(loopOf(s)))
  /\ [][ \A s \in TickSlots :
           tickEnds(s) => /\ loopOf(s).attempted = loopOf(s).groups
                          /\ loopOf(s).phase \in {"getEntity", "sendMessage"} ]_vars

\* the first target of a loop has failed and the second is being attempted
C3_Witness ==
  \E s \in Slots :
    /\ loopOf(s).failed
    /\ loopOf(s).i = 2
    /\ loopOf(s).phase = "getEntity"
    /\ loopOf(s).attempted = <<gA, gB>>

\* the pacing delays of loop l so far: one after each attempt but the last
paced(l) ==
  /\ l.phase \in {"getEntity", "sendMessage"} => l.delays = l.i - 1
  /\ l.phase = "sleep" => l.delays = l.i /\ l.i < Len(l.groups)
  /\ (l.phase = "end" /\ l.groups # <<>>) => l.delays = Len(l.groups) - 1

\* a step of the loop in slot s: the delay starts when the attempt finishes
\* and lasts messageDelay, and the next attempt starts only from a delay
\* that is over
pacedStep(s) ==
  LET l == loopOf(s)
      l2 == loopOf(s)'
  IN /\ (l.phase \in {"getEntity", "sendMessage"} /\ l2.phase = "sleep")
          => l2.wake = now + messageDelay /\ now' = now
     /\ (l.phase = "sleep" /\ l2.phase = "sleep") => l2.wake = l.wake
     /\ (l.attempted # <<>> /\ Len(l2.attempted) > Len(l.attempted))
          => l.phase = "sleep" /\ now >= l.wake

\* C4: in every broadcast loop the next attempt starts only after the
\* previous one has finished and one pacing delay has then elapsed; a loop
\* over n targets takes the delay n-1 times and never after the last target.
C4_PacingBetweenAttempts ==
  /\ [](\A s \in Slots : paced(loopOf(s)))
  /\ [][ /\ \A s \in Slots : pacedStep(s)
         /\ \A s \in TickSlots :
              tickEnds(s) => loopOf(s).delays = Len(loopOf(s).groups) - 1 ]_vars

\* a /sendmulti over two targets has ended, with one delay taken
C4_Witness ==
  \E h \in 1..MaxInFlight :
    /\ handlers[h].cmd = "sendmulti"
    /\ handlers[h].loop.phase = "end"
    /\ Len(handlers[h].loop.attempted) = 2
    /\ handlers[h].loop.delays = 1
    /\ now >= messageDelay

\* C5: the step that creates a job starts no tick and no delivery attempt,
\* and the first tick of a job starts no sooner than one full interval after
\* the job was created.
C5_FirstTickAfterInterval ==
  [][ /\ Len(timers') > Len(timers)
           => /\ ticks' = ticks
              /\ \A h \in 1..MaxInFlight :
                   handlers[h].pc = "idle" => handlers'[h].loop.attempted = <<>>
      /\ \A j \in DOMAIN timers :
           (timers[j].fires = 0 /\ timers'[j].fires = 1)
             => atLeast(now - timers[j].createdAt, timers[j].intervalMs) ]_vars

\* job j was cleared before its first tick
stoppedUnfired(j) == ~timers[j].active /\ timers[j].fires = 0

\* C6: a job cleared by /stoptimers before its first tick has no tick in
\* flight and never gets one: it stays cleared and unfired in every later
\* state.
C6_StoppedBeforeFirstTick ==
  /\ [](\A j \in DOMAIN timers :
          stoppedUnfired(j) => \A n \in 1..MaxFires : ticks[j][n].job = 0)
  /\ [][ \A j \in DOMAIN timers : stoppedUnfired(j) => stoppedUnfired(j)' ]_vars

\* a job cleared before its first tick, at a time its first tick was due
C6_Witness ==
  \E j \in DOMAIN timers : stoppedUnfired(j) /\ now >= timers[j].due

\* this step takes up a /stoptimers
stopTaken ==
  \E h \in 1..MaxInFlight : handlers[h].pc = "idle" /\ handlers'[h].cmd = "stoptimers"

\* C7: handling /stoptimers empties activeTimers and clears every timer made
\* before it; a cleared timer starts no tick and never changes again, and
\* the end of the /stoptimers handler, its reply sent or not, changes neither.
C7_StopClearsAll ==
  /\ [](\A j \in DOMAIN timers :
          timers[j].active <=> \E k \in DOMAIN activeTimers : activeTimers[k] = j)
  /\ [][ /\ stopTaken => /\ activeTimers' = <<>>
                         /\ \A j \in DOMAIN timers' : ~timers'[j].active
         /\ \A j \in DOMAIN timers : ~timers[j].active => timers'[j] = timers[j]
         /\ \A s \in TickSlots :
              (ticks[s[2]][s[3]].job = 0 /\ ticks'[s[2]][s[3]].job # 0)
                => timers[s[2]].active
         /\ \A h \in 1..MaxInFlight :
              (handlers[h].cmd = "stoptimers" /\ handlers'[h].pc = "idle")
                => UNCHANGED <<activeTimers, timers>> ]_vars

\* a job that has ticked was cleared, nothing is registered, and the time of
\* its next tick has come
C7_Witness ==
  /\ activeTimers = <<>>
  /\ \E j \in DOMAIN timers :
       /\ ~timers[j].active
       /\ timers[j].fires >= 1
       /\ timers[j].fires < MaxFires
       /\ now >= timers[j].due

\* C8: handling /stoptimers leaves every broadcast loop in flight where it
\* is, and a loop that was in flight then ends only when all its targets
\* have been attempted.
C8_InFlightNotInterrupted ==
  [][ /\ stopTaken
           => \A s \in Slots :
                loopOf(s).phase # "end"
                  => loopOf(s)' = [loopOf(s) EXCEPT !.stopAt = loopOf(s)'.stopAt]
      /\ \A s \in TickSlots :
           (tickEnds(s) /\ loopOf(s).stopAt # 0)
             => loopOf(s).attempted = loopOf(s).groups
      /\ \A s \in HandlerSlots :
           (loopOf(s).stopAt # 0 /\ loopOf(s).phase # "end" /\ loopOf(s)'.phase = "end")
             => loopOf(s)'.attempted = loopOf(s).groups ]_vars

\* a tick that was at its first target when /stoptimers cleared its timer
\* is attempting its second target
C8_Witness ==
  \E s \in TickSlots :
    /\ ticks[s[2]][s[3]].job # 0
    /\ ~timers[s[2]].active
    /\ loopOf(s).stopAt = 1
    /\ loopOf(s).i = 2
    /\ loopOf(s).attempted = <<gA, gB>>

\* the targets, message and interval of the jobs the inbound messages of
\* Spec create: by the /autosend command, and by the wizard answered "5s"
jobsAsked ==
  { <<<<gA, gB>>, mYo, [sec |-> 5, ms |-> 0, frac |-> FALSE]>>,
    <<<<txtInterval>>, txtInterval, [sec |-> 5, ms |-> 0, frac |-> FALSE]>> }

\* C9: every tick of a job runs over the job's own targets and message,
\* which are those the job was created with, and no step changes the
\* targets, message or interval of a job.
C9_JobNeverChanges ==
  /\ [](\A s \in TickSlots :
          ticks[s[2]][s[3]].job # 0
            => /\ ticks[s[2]][s[3]].job = s[2]
               /\ loopOf(s).groups = timers[s[2]].groups
               /\ loopOf(s).message = timers[s[2]].message)
  /\ [](\A j \in DOMAIN timers :
          <<timers[j].groups, timers[j].message, timers[j].intervalMs>> \in jobsAsked)
  /\ [][ \A j \in DOMAIN timers :
           /\ timers'[j].groups = timers[j].groups
           /\ timers'[j].message = timers[j].message
           /\ timers'[j].intervalMs = timers[j].intervalMs
           /\ timers'[j].delay = timers[j].delay ]_vars

\* the second tick of a job has started on the job's first target while its
\* first tick is at the second, and another job exists
C9_Witness ==
  /\ Len(timers) = 2
  /\ \E j \in DOMAIN timers :
       /\ ticks[j][2].job = j
       /\ ticks[j][2].loop.attempted = <<gA>>
       /\ ticks[j][1].job = j
       /\ ticks[j][1].loop.attempted = <<gA, gB>>

\* C10: activeTimers holds one timer for each job created since the last
\* /stoptimers, each of them distinct and running.
C10_TimersCountCreations ==
  /\ Len(activeTimers) = created
  /\ \A k \in DOMAIN activeTimers :
       activeTimers[k] \in DOMAIN timers /\ timers[activeTimers[k]].active
  /\ \A k, m \in DOMAIN activeTimers : k # m => activeTimers[k] # activeTimers[m]

\* two jobs equal in targets, interval and message are both registered and
\* have both ticked
C10_Witness ==
  /\ created = 2
  /\ Len(activeTimers) = 2
  /\ \E j, k \in DOMAIN timers :
       /\ j # k
       /\ timers[j].groups = timers[k].groups
       /\ timers[j].message = timers[k].message
       /\ timers[j].intervalMs = timers[k].intervalMs
       /\ timers[j].active /\ timers[k].active
       /\ timers[j].fires >= 1 /\ timers[k].fires >= 1

\* the interval is more than 0 milliseconds
positive(intervalMs) == intervalMs.sec > 0 \/ intervalMs.ms > 0 \/ intervalMs.frac

\* C11: every job has at least one target, no empty target, an interval of
\* more than 0 milliseconds and a message that is not empty and is trimmed.
C11_JobsWellFormed ==
  \A j \in DOMAIN timers :
    /\ Len(timers[j].groups) >= 1
    /\ \A k \in 1..Len(timers[j].groups) : timers[j].groups[k] # <<>>
    /\ positive(timers[j].intervalMs)
    /\ timers[j].message # <<>>
    /\ trim(timers[j].message) = timers[j].message

\* the job of "/autosend  @a  @b | 0.5s | yo|hi ", and the job the wizard
\* makes of the message " yo "
C11_Witness ==
  \E j \in DOMAIN timers :
    \/ /\ timers[j].groups = <<gA, gB>>
       /\ timers[j].intervalMs = [sec |-> 0, ms |-> 500, frac |-> FALSE]
       /\ timers[j].message = mYo \o BAR \o mHi
       /\ \E h \in 1..MaxInFlight : handlers[h].text = txtAutosendSpaced
    \/ /\ timers[j].message = mYo
       /\ \E h \in 1..MaxInFlight : handlers[h].text = txtMessageSpaced

\* the interval of the text "/autosend @a|<interval>|yo"
pipedPrefix == cmdAutosend \o SP \o gA \o BAR
pipedInterval(text) == SubSeq(text, Len(pipedPrefix) + 1, Len(text) - Len(BAR \o mYo))
isPiped(text) ==
  /\ Len(text) >= Len(pipedPrefix) + Len(BAR \o mYo)
  /\ piped(pipedInterval(text)) = text
  /\ pipedInterval(text) \in IntervalTexts

\* the number and the unit of a text of WholeTexts, and the milliseconds they
\* stand for: the number times 1000 for s, 60000 for m, 3600000 for h or no unit
wholeOf(text) ==
  CHOOSE p \in (1..MaxWhole) \X UnitSuffixes : natToStr(p[1]) \o p[2] = text
unitSeconds(u) ==
  IF u \in {<<"s">>, <<"S">>} THEN 1
  ELSE IF u \in {<<"m">>, <<"M">>} THEN 60
  ELSE 3600
wholeMs(text) ==
  [sec |-> wholeOf(text)[1] * unitSeconds(wholeOf(text)[2]), ms |-> 0, frac |-> FALSE]

\* C12: an interval text made of a whole number and an optional unit s, m or
\* h in either case parses to the number times 1000, 60000 or 3600000
\* milliseconds, a missing unit being h: in the wizard state that holds the
\* text, and in the job an /autosend command carrying it creates.
C12_WholeIntervals ==
  /\ \A c \in Callers :
       (autosendStates[c].step = "message" /\ autosendStates[c].intervalText \in WholeTexts)
         => /\ autosendStates[c].intervalInfo.ok
            /\ autosendStates[c].intervalInfo.intervalMs
                 = wholeMs(autosendStates[c].intervalText)
  /\ \A h \in 1..MaxInFlight :
       (isPiped(handlers[h].text) /\ pipedInterval(handlers[h].text) \in WholeTexts)
         => /\ Len(timers) = 1
            /\ timers[1].intervalMs = wholeMs(pipedInterval(handlers[h].text))

\* "4h" answered to the wizard is held as 14,400,000 ms, and "30S" in a
\* command makes a job of 30,000 ms
C12_Witness ==
  \/ /\ autosendStates[Owner].step = "message"
     /\ autosendStates[Owner].intervalText = <<"4", "h">>
     /\ autosendStates[Owner].intervalInfo.intervalMs.sec = 14400
  \/ /\ \E h \in 1..MaxInFlight : handlers[h].text = piped(<<"3", "0", "S">>)
     /\ Len(timers) = 1
     /\ timers[1].intervalMs.sec = 30

\* text is not a positive number with an optional unit: with the unit letter
\* and the spaces around taken off, it is empty, or has a character that is
\* neither a digit nor '.', or more than one '.', or no digit other than 0
notInterval(text) ==
  LET t == trim(text)
      hasUnit == t # <<>> /\ t[Len(t)] \in UnitLetters
      b == IF hasUnit THEN trim(SubSeq(t, 1, Len(t) - 1)) ELSE t
  IN \/ b = <<>>
     \/ \E i \in 1..Len(b) : ~IsDigit(b[i]) /\ b[i] # "."
     \/ Cardinality({i \in 1..Len(b) : b[i] = "."}) > 1
     \/ \A i \in 1..Len(b) : b[i] \in {"0", "."}

\* C13: an interval text that is not a positive number with an optional unit
\* is never accepted: the wizard does not take it as its interval, and an
\* /autosend command carrying it gets the error response and creates no job.
C13_BadIntervalsRejected ==
  /\ \A c \in Callers :
       autosendStates[c].step = "message"
         => ~notInterval(autosendStates[c].intervalText)
  /\ \A h \in 1..MaxInFlight :
       (handlers[h].pc # "idle" /\ notInterval(handlers[h].text))
         => handlers[h].reply.kind # "wizIntervalSet"
  /\ \A h \in 1..MaxInFlight :
       (isPiped(handlers[h].text) /\ notInterval(pipedInterval(handlers[h].text)))
         => /\ handlers[h].reply.kind = "invalidAutosend"
            /\ timers = <<>>

\* "-5m" in an /autosend command, and "0h" answered to the wizard's interval
\* step, get the error responses
C13_Witness ==
  \/ \E h \in 1..MaxInFlight :
       /\ handlers[h].text = piped(<<"-", "5", "m">>)
       /\ handlers[h].reply.kind = "invalidAutosend"
  \/ \E h \in 1..MaxInFlight :
       /\ handlers[h].text = <<"0", "h">>
       /\ handlers[h].reply.kind = "wizBadInterval"

\* handler slot h takes up an inbound message in this step
takes(h) == handlers[h].pc = "idle" /\ handlers'[h].pc # "idle"

\* commands that lack a delimiter, a part, the targets, a valid interval, the
\* message, or the arguments of /send
MalformedTexts ==
  {txtSendMultiBad, txtAutosendShort, txtAutosendArgsOnly, txtAutosendNoTargets,
   txtAutosendBad, txtAutosendNoMessage, txtSendNoArgs, txtSendOneArg}

\* the responses that are error texts
ErrorKinds == {"fmtSendmulti", "fmtAutosend", "invalidAutosend", "unknown"}

\* C14: the handler of a malformed command answers with an error text,
\* starts no delivery attempt, and leaves the job registry and the per-caller
\* wizard states as they were.
C14_MalformedChangesNothing ==
  [][\A h \in 1..MaxInFlight :
       (takes(h) /\ handlers'[h].text \in MalformedTexts)
         => /\ handlers'[h].reply.kind \in ErrorKinds
            /\ handlers'[h].loop.attempted = <<>>
            /\ timers' = timers
            /\ activeTimers' = activeTimers
            /\ autosendStates' = autosendStates]_vars

\* C15: the handler of a /send with fewer than 2 arguments after the command
\* name starts no delivery attempt and does not answer with the
\* unknown-command response.
C15_SendUsageHint ==
  \A h \in 1..MaxInFlight :
    (/\ handlers[h].pc # "idle"
     /\ decoded(handlers[h].text).isCommand
     /\ decoded(handlers[h].text).command = cmdSend
     /\ decoded(handlers[h].text).nparts < 3)
      => /\ handlers[h].loop.attempted = <<>>
         /\ handlers[h].reply.kind # "unknown"

\* the non-empty tokens of s between spaces and tabs
wsTokens(s) ==
  nonEmpty(split([i \in 1..Len(s) |-> IF s[i] = "\t" THEN " " ELSE s[i]], " "))

\* the index of the first '|' of text, or 0
firstBar(text) ==
  LET bars == {i \in 1..Len(text) : text[i] = "|"}
  IN IF bars = {} THEN 0 ELSE CHOOSE i \in bars : \A k \in bars : i <= k

\* C16: the handler of a /sendmulti text without '|' answers with the format
\* error and sends nothing; a broadcast it starts has as targets the
\* whitespace-separated tokens left of the first '|' without the command
\* token, and as message everything right of the first '|', trimmed.
C16_SendMultiFirstBar ==
  \A h \in 1..MaxInFlight :
    (/\ handlers[h].pc # "idle"
     /\ handlers[h].cmd = "sendmulti"
     /\ startsWith(handlers[h].text, cmdSendMulti \o SP))
      => LET text == handlers[h].text
             b == firstBar(text)
         IN IF b = 0
            THEN /\ handlers[h].reply.kind = "fmtSendmulti"
                 /\ handlers[h].loop.attempted = <<>>
            ELSE handlers[h].reply.kind = "sentMulti"
                   => /\ handlers[h].loop.message = trim(SubSeq(text, b + 1, Len(text)))
                      /\ handlers[h].loop.groups = Tail(wsTokens(SubSeq(text, 1, b - 1)))

\* C17: a broadcast started by /sendmulti, which is what the success
\* response answers, has at least one target and a message that is not empty.
C17_SendMultiNotEmpty ==
  \A h \in 1..MaxInFlight :
    (/\ handlers[h].pc # "idle"
     /\ handlers[h].cmd = "sendmulti"
     /\ handlers[h].reply.kind = "sentMulti")
      => /\ Len(handlers[h].loop.groups) >= 1
         /\ handlers[h].loop.message # <<>>

\* C18: no delivery attempt started by /send has the empty string as target.
C18_SendTargetNotEmpty ==
  \A h \in 1..MaxInFlight :
    (handlers[h].pc # "idle" /\ handlers[h].cmd = "send")
      => \A k \in 1..Len(handlers[h].loop.attempted) :
           handlers[h].loop.attempted[k] # <<>>

\* C19: the target list read from a /sendmulti or an /autosend in any letter
\* case never holds the command token: the targets of "/SENDMULTI @a @b|hi"
\* and of "/AutoSend @a @b|5s|yo" are @a and @b.
C19_CommandTokenStripped ==
  /\ \A h \in 1..MaxInFlight :
       (handlers[h].pc # "idle" /\ handlers[h].cmd = "sendmulti")
         => /\ \A k \in 1..Len(handlers[h].loop.groups) :
                 toLowerCase(handlers[h].loop.groups[k]) # cmdSendMulti
            /\ handlers[h].text = txtSendMultiUpper
                 => handlers[h].loop.groups = <<gA, gB>>
  /\ \A j \in DOMAIN timers :
       \A k \in 1..Len(timers[j].groups) :
         toLowerCase(timers[j].groups[k]) # cmdAutosend
  /\ \A h \in 1..MaxInFlight :
       handlers[h].text = txtAutosendUpper
         => Len(timers) = 1 /\ timers[1].groups = <<gA, gB>>

\* C20: the handler of an /autosend that fails validation answers with the
\* error of that failure: the format error for missing parts, the
\* invalid-interval error for an interval that does not parse, and an error
\* of their own for an empty target list and for an empty message; and no
\* job is created.
C20_AutosendOwnErrors ==
  \A h \in 1..MaxInFlight :
    (handlers[h].pc # "idle" /\ handlers[h].cmd = "autosend")
      => LET a == decoded(handlers[h].text).autosend
         IN /\ a.n = 2 => handlers[h].reply.kind = "fmtAutosend"
            /\ (a.n >= 3 /\ ~a.intervalInfo.ok)
                 => handlers[h].reply.kind = "invalidInterval"
            /\ (a.n >= 3 /\ a.intervalInfo.ok /\ a.groups = <<>>)
                 => handlers[h].reply.kind = "missingTargets"
            /\ (a.n >= 3 /\ a.intervalInfo.ok /\ a.groups # <<>> /\ a.message = <<>>)
                 => handlers[h].reply.kind = "emptyMessage"
            /\ (a.n >= 2 /\ (a.n = 2 \/ ~a.intervalInfo.ok \/ a.groups = <<>> \/ a.message = <<>>))
                 => timers = <<>>

\* a step that takes up no message, or takes up one that changes nothing but
\* the count of messages
nothingDone ==
  UNCHANGED <<handlers, autosendStates, activeTimers, timers, ticks, created>>

\* C21 as stated: a message is handled, by a handler that responds, delivers
\* or changes state, only if its text starts with '/'.
C21_NonCommandIgnored ==
  [][msgs' # msgs
       => /\ \A h \in 1..MaxInFlight : takes(h) => isCommand(handlers'[h].text)
          /\ (\A h \in 1..MaxInFlight : ~takes(h)) => nothingDone]_vars

\* C21, amended: a message whose text does not start with '/' is handled
\* only if its caller has an /autosend wizard in progress; any other such
\* message gets no handler, no response and no delivery attempt and changes
\* neither the jobs nor the wizard states, whatever was handled before.
C21_NonCommandIgnoredOutsideWizard ==
  [][msgs' # msgs
       => /\ \A h \in 1..MaxInFlight :
               (takes(h) /\ ~isCommand(handlers'[h].text))
                 => autosendStates[handlers'[h].caller] # NoState
          /\ (\A h \in 1..MaxInFlight : ~takes(h)) => nothingDone]_vars

\* after a job was created and a help command answered, a message was taken
\* up that left nothing behind: "@a @b", "5s" or "yo" outside a wizard
C21_Witness ==
  /\ msgs = MaxMsgs
  /\ Len(timers) = 1
  /\ \A h \in 1..MaxInFlight : handlers[h] = Idle
  /\ \A c \in Callers : autosendStates[c] = NoState
  /\ logged = NoLog

\* C22: the handler of every message of a caller that is not on the
\* allow-list is at its one attempt to send the fixed redirect response.
C22_DeniedGetsRedirect ==
  \A h \in 1..MaxInFlight :
    (handlers[h].pc # "idle" /\ handlers[h].caller \notin allowedUserIds)
      => /\ handlers[h].pc = "respond"
         /\ handlers[h].reply.kind = "redirect"

\* the commands the handler recognizes
RecognizedCmds == {"send", "sendmulti", "autosend", "stoptimers", "help", "stats"}

\* C23: the handler of a recognized, well-formed command of an authorized
\* caller ends only by the return of a response call, successful or not:
\* never by the error of another collaborator call.
C23_AlwaysAResponseAttempt ==
  [][\A h \in 1..MaxInFlight :
       (/\ handlers[h].pc # "idle"
        /\ handlers'[h].pc = "idle"
        /\ handlers[h].caller \in allowedUserIds
        /\ handlers[h].cmd \in RecognizedCmds
        /\ handlers[h].reply.kind \notin ErrorKinds)
         => handlers[h].pc = "respond"]_vars

\* C24: when the reply-in-place of a command fails, the handler goes on to
\* one attempt to send the same response through the direct-message path.
C24_OneFallbackAttempt ==
  [][\A h \in 1..MaxInFlight :
       (/\ handlers[h].pc = "respond"
        /\ handlers[h].cmd \in RecognizedCmds
        /\ handlers[h].via = "respond"
        /\ logged' = [h |-> h, by |-> "reply"])
         => /\ handlers'[h].pc = "respond"
            /\ handlers'[h].via = "dm"
            /\ handlers'[h].reply = handlers[h].reply]_vars

\* C25: an error of a collaborator call is caught by a catch block of the
\* handler, whose invocation then ends with nothing else changed, so that
\* its slot takes the next message; and a timer callback ends only after the
\* attempt to its last target, whatever failed before.
C25_NoErrorEscapes ==
  [][/\ logged' # NoLog
          => /\ logged'.by \in {"reply", "handler", "stats"}
             /\ handlers'[logged'.h] = Idle
             /\ UNCHANGED <<msgs, activeTimers, timers, ticks, created>>
     /\ \A j \in 1..MaxJobs, n \in 1..MaxFires :
          (ticks[j][n].job # 0 /\ ticks'[j][n].job = 0)
            => ticks[j][n].loop.i = Len(ticks[j][n].loop.groups)]_vars

\* the wizard's response has failed, the handler's catch has logged it, and
\* the next message is taken up while a timer callback whose first attempt
\* failed goes on
C25_Witness ==
  \/ /\ logged.by = "handler"
     /\ handlers[logged.h] = Idle
     /\ msgs < MaxMsgs
  \/ \E j \in 1..MaxJobs, n \in 1..MaxFires :
       /\ ticks[j][n].loop.failed
       /\ ticks[j][n].loop.phase = "getEntity"
       /\ ticks[j][n].loop.i = 2

\* C26: the period of every job's timer is the interval the parser gave, in
\* whole seconds and milliseconds.
C26_PeriodIsInterval ==
  \A j \in DOMAIN timers :
    /\ timers[j].delay \div 1000 = timers[j].intervalMs.sec
    /\ timers[j].delay % 1000 = timers[j].intervalMs.ms

\* the listing was too long to send whole
wasSplit == Len(has.chunks) > 1

\* C27: when the /has listing is split, every chunk handed to the response
\* call, and so every chunk sent, has at most 4000 characters.
C27_ChunksWithinBudget ==
  wasSplit
    => /\ \A k \in 1..Len(has.chunks) : has.chunks[k].len <= 4000
       /\ \A k \in 1..Len(has.sent) : has.sent[k].len <= 4000

\* a listing of MaxGroups groups went out in three chunks, the first of them
\* within 300 characters of the budget
C27_Witness ==
  /\ has.pc = "done"
  /\ Len(has.dialogs) = MaxGroups
  /\ Len(has.sent) = 3
  /\ has.sent[1].len > 4000 - 300

\* the pieces of the texts, in order
RECURSIVE piecesOf(_)
piecesOf(texts) ==
  IF texts = <<>> THEN <<>> ELSE Head(texts).pieces \o piecesOf(Tail(texts))

RECURSIVE lengthOf(_)
lengthOf(texts) == IF texts = <<>> THEN 0 ELSE Head(texts).len + lengthOf(Tail(texts))

\* C28: when the /has listing is split, the chunks handed to the response
\* call are, one after the other, the header and every item line once in
\* item order, each line whole, as long together as the unsplit listing; and
\* the chunks sent so far hold their lines in item order.
C28_ChunksAreTheListing ==
  wasSplit
    => /\ piecesOf(has.chunks) = [k \in 1..(Len(has.dialogs) + 1) |-> k - 1]
       /\ lengthOf(has.chunks) = groupsList(has.dialogs).len
       /\ \A k \in 1..(Len(piecesOf(has.sent)) - 1) :
            piecesOf(has.sent)[k] < piecesOf(has.sent)[k + 1]

\* every chunk of a split listing with a short title at the chunk boundary
\* was sent, and the chunks sent are the listing
C28_Witness ==
  /\ has.pc = "done"
  /\ wasSplit
  /\ has.sent = has.chunks
  /\ Len(has.dialogs) > 13
  /\ has.dialogs[13] = shortGroup
  /\ piecesOf(has.sent) = [k \in 1..(Len(has.dialogs) + 1) |-> k - 1]

\* a handler of /send that has started its delivery
sending(h) == handlers[h].pc # "idle" /\ handlers[h].cmd = "send"

\* C29 as stated: the message delivered by /send is the arguments after the
\* target with the empty ones dropped, joined by single spaces, so that a run
\* of spaces inside the message becomes one space.
C29_SendCollapsesSpaces ==
  \A h \in 1..MaxInFlight :
    sending(h)
      => handlers[h].loop.message =
           join(nonEmpty(slice(split(handlers[h].text, " "), 2)), SP)

\* C29: the message delivered by /send is the text that follows the command
\* name, one space, the target and one space, character for character: a run
\* of spaces inside the message is kept ("/send @a hi  yo" delivers "hi  yo").
C29_SendKeepsSpaces ==
  \A h \in 1..MaxInFlight :
    sending(h)
      => /\ handlers[h].loop.groups # <<>>
         /\ handlers[h].text =
              SubSeq(handlers[h].text, 1, Len(cmdSend)) \o SP
                \o handlers[h].loop.groups[1] \o SP \o handlers[h].loop.message
         /\ handlers[h].text = txtSendSpaces
              => handlers[h].loop.message = mHi \o SP \o SP \o mYo

C29_Witness ==
  \E h \in 1..MaxInFlight :
    /\ sending(h)
    /\ handlers[h].text = txtSendSpaces
    /\ handlers[h].loop.attempted # <<>>

\* the label of a text of WholeTexts: its number, and its unit in lower case,
\* h when it has none
wholeLabel(text) ==
  natToStr(wholeOf(text)[1])
    \o (IF wholeOf(text)[2] \in {<<"s">>, <<"S">>} THEN <<"s">>
        ELSE IF wholeOf(text)[2] \in {<<"m">>, <<"M">>} THEN <<"m">>
        ELSE <<"h">>)

\* C30: the confirmation of a created job names the number of the job's
\* targets and a label rebuilt from the parsed number and the resolved
\* lower-case unit, not the raw text ("10m" gives "10m", "10M" gives "10m",
\* "2" gives "2h"): after an /autosend command, and in the wizard, whose
\* interval step stores the label that its last step confirms with.
C30_ConfirmationRebuilt ==
  /\ \A h \in 1..MaxInFlight :
       handlers[h].reply.kind = "started"
         => /\ Len(timers) = 1
            /\ handlers[h].reply.n = Len(timers[1].groups)
            /\ handlers[h].reply.what # <<>>
            /\ handlers[h].reply.what[Len(handlers[h].reply.what)] \in {"s", "m", "h"}
            /\ handlers[h].cmd = "wizard"
                 => handlers[h].reply.what
                      = autosendStates[handlers[h].caller].intervalInfo.label
  /\ \A h \in 1..MaxInFlight :
       (isPiped(handlers[h].text) /\ pipedInterval(handlers[h].text) \in WholeTexts)
         => /\ handlers[h].reply.kind = "started"
            /\ handlers[h].reply.n = 1
            /\ handlers[h].reply.what = wholeLabel(pipedInterval(handlers[h].text))
  /\ \A h \in 1..MaxInFlight :
       /\ handlers[h].text = piped(<<"1", "0", "m">>)
            => handlers[h].reply.what = <<"1", "0", "m">>
       /\ handlers[h].text = piped(<<"1", "0", "M">>)
            => handlers[h].reply.what = <<"1", "0", "m">>
       /\ handlers[h].text = piped(<<"2">>)
            => handlers[h].reply.what = <<"2", "h">>
       /\ handlers[h].text = txtAutosend
            => handlers[h].reply.n = 2 /\ handlers[h].reply.what = <<"5", "s">>
  /\ \A c \in Callers :
       (autosendStates[c].step = "message" /\ autosendStates[c].intervalText \in WholeTexts)
         => autosendStates[c].intervalInfo.label
              = wholeLabel(autosendStates[c].intervalText)

\* "/autosend @a|10M|yo" is confirmed with "10m", the wizard holding "@a @b"
\* and "5s" confirms 2 groups every "5s", and "2" answered to the wizard's
\* interval step is held with the label "2h"
C30_Witness ==
  \/ \E h \in 1..MaxInFlight :
       /\ handlers[h].text = piped(<<"1", "0", "M">>)
       /\ handlers[h].reply = [kind |-> "started", n |-> 1, what |-> <<"1", "0", "m">>]
  \/ \E h \in 1..MaxInFlight :
       /\ handlers[h].cmd = "wizard"
       /\ handlers[h].reply = [kind |-> "started", n |-> 2, what |-> <<"5", "s">>]
  \/ /\ autosendStates[Owner].step = "message"
     /\ autosendStates[Owner].intervalText = <<"2">>
     /\ autosendStates[Owner].intervalInfo.label = <<"2", "h">>

\* this step takes up a text of caller c as the wizard's message and creates a job
wizardJob(c) ==
  /\ Len(timers') = Len(timers) + 1
  /\ \E h \in 1..MaxInFlight :
       takes(h) /\ handlers'[h].caller = c /\ handlers'[h].cmd = "wizard"

\* handler h is confirming the job that the wizard of caller c has created
confirming(h, c) ==
  /\ handlers[h].caller = c
  /\ handlers[h].cmd = "wizard"
  /\ handlers[h].reply.kind = "started"

\* C31: a completed wizard run creates one job: the wizard of a caller
\* creates no job while the confirmation of a job it created is still being
\* sent, and when that confirmation ends, sent or failed, the caller's
\* wizard state is gone, so that no later text creates another job.
C31_OneJobPerRun ==
  [][\A c \in Callers :
       /\ wizardJob(c) => \A h \in 1..MaxInFlight : ~confirming(h, c)
       /\ \A h \in 1..MaxInFlight :
            (confirming(h, c) /\ handlers'[h].pc = "idle")
              => autosendStates'[c].step # "message"]_vars

\* this step takes up a message of caller c and answers it with a reply of kinds
answers(c, kinds) ==
  \E h \in 1..MaxInFlight :
    takes(h) /\ handlers'[h].caller = c /\ handlers'[h].reply.kind \in kinds

\* the wizard state of caller c moves one step forward, keeping what it holds
oneStepOn(c) ==
  LET s == autosendStates[c]
      t == autosendStates'[c]
  IN \/ /\ s.step = "groups" /\ t.step = "interval"
        /\ t.groups # <<>>
        /\ answers(c, {"wizGroupsSet"})
     \/ /\ s.step = "interval" /\ t.step = "message"
        /\ t.groups = s.groups /\ t.intervalInfo.ok
        /\ answers(c, {"wizIntervalSet"})
     \/ /\ s.step = "message" /\ t = NoState

\* an /autosend without '|' starts the wizard of caller c afresh
restarted(c) == autosendStates'[c] = freshState /\ answers(c, {"wizStep1"})

\* C32: a caller's wizard state changes only by one step forward, groups to
\* interval to message to done, on an accepted input (or by a fresh start on
\* /autosend); an input rejected at a step leaves the state as it was.
C32_WizardStepsForward ==
  [][\A c \in Callers :
       /\ autosendStates'[c] # autosendStates[c] => oneStepOn(c) \/ restarted(c)
       /\ answers(c, {"wizNoGroups", "wizBadInterval", "wizEmptyMsg"})
            => autosendStates'[c] = autosendStates[c]]_vars

\* C33: the wizard creates a job only on an input at its message step, the
\* job has the targets and the interval the state holds from the groups and
\* interval steps and the trimmed text of that input, and the state holds
\* what those steps accepted: the tokens of the groups input in order, and
\* the parsed interval input, with the targets kept.
C33_WizardJobFromItsSteps ==
  [][\A c \in Callers :
       /\ wizardJob(c)
            => /\ autosendStates[c].step = "message"
               /\ timers'[Len(timers')].groups = autosendStates[c].groups
               /\ timers'[Len(timers')].intervalMs
                    = autosendStates[c].intervalInfo.intervalMs
               /\ \A h \in 1..MaxInFlight :
                    (takes(h) /\ handlers'[h].caller = c)
                      => timers'[Len(timers')].message = trim(handlers'[h].text)
       /\ (autosendStates[c].step \in {"groups", "interval"}
            /\ \E h \in 1..MaxInFlight :
                 takes(h) /\ handlers'[h].caller = c /\ handlers'[h].cmd = "wizard")
            => timers' = timers
       /\ \A h \in 1..MaxInFlight :
            (takes(h) /\ handlers'[h].caller = c /\ handlers'[h].reply.kind = "wizGroupsSet")
              => /\ handlers'[h].text = txtGroups
                      => autosendStates'[c].groups = <<gA, gB>>
                 /\ handlers'[h].text = txtMessageSpaced
                      => autosendStates'[c].groups = <<mYo>>
                 /\ handlers'[h].text = txtInterval
                      => autosendStates'[c].groups = <<txtInterval>>
       /\ \A h \in 1..MaxInFlight :
            (takes(h) /\ handlers'[h].caller = c /\ handlers'[h].reply.kind = "wizIntervalSet")
              => /\ handlers'[h].text = txtInterval
                 /\ autosendStates'[c].groups = autosendStates[c].groups
                 /\ autosendStates'[c].intervalInfo.intervalMs
                      = [sec |-> 5, ms |-> 0, frac |-> FALSE]]_vars

\* a wizard answered " yo ", "5s" and "@a @b" has made the job that sends
\* "@a @b" to yo every 5 seconds
C33_Witness ==
  /\ Len(timers) = 1
  /\ timers[1].groups = <<mYo>>
  /\ timers[1].intervalMs = [sec |-> 5, ms |-> 0, frac |-> FALSE]
  /\ timers[1].message = txtGroups

\* handler h runs in this step for caller a: it takes up a's message or ends
runsFor(h, a) ==
  \/ takes(h) /\ handlers'[h].caller = a
  \/ handlers[h].pc # "idle" /\ handlers[h].caller = a /\ handlers'[h].pc = "idle"

\* the responses the wizard gives at a step
stepKinds(step) ==
  IF step = "groups" THEN {"wizNoGroups", "wizGroupsSet"}
  ELSE IF step = "interval" THEN {"wizBadInterval", "wizIntervalSet"}
  ELSE IF step = "message" THEN {"wizEmptyMsg", "wizBroken", "started"}
  ELSE {}

\* C34: the wizard states of different callers are independent: a step of a
\* handler of caller a leaves the wizard state of every other caller as it
\* was, the wizard answers a's input by a's own step, and a job made by a's
\* wizard has the targets and the interval of a's state.
C34_WizardStatesIndependent ==
  [][\A a \in Callers :
       \A h \in 1..MaxInFlight :
         runsFor(h, a)
           => /\ \A b \in Callers \ {a} : autosendStates'[b] = autosendStates[b]
              /\ (takes(h) /\ handlers'[h].cmd = "wizard")
                   => /\ handlers'[h].reply.kind \in stepKinds(autosendStates[a].step)
                      /\ handlers'[h].reply.kind = "started"
                           => /\ timers'[Len(timers')].groups = autosendStates[a].groups
                              /\ timers'[Len(timers')].label
                                   = autosendStates[a].intervalInfo.label]_vars

\* the owner's wizard, answered " yo ", "5s" and a message, confirms its job
\* for the target yo while the other caller's wizard still holds @a and @b
C34_Witness ==
  /\ \E h \in 1..MaxInFlight : confirming(h, Owner)
  /\ Len(timers) = 1
  /\ timers[1].groups = <<mYo>>
  /\ autosendStates[Owner].groups = <<mYo>>
  /\ autosendStates[Stranger] = wizardAtMessage

\* text is an /autosend, in any letter case, without any '|'
startsWizard(text) ==
  /\ toLowerCase(split(text, " ")[1]) = cmdAutosend
  /\ \A k \in 1..Len(text) : text[k] # "|"

C36_TicksDoNotWait ==
  /\ [][\A j \in DOMAIN timers :
          timers'[j].fires > timers[j].fires
            => /\ now = timers[j].due
               /\ ticks'[j][timers'[j].fires].loop.attempted = <<timers[j].groups[1]>>]_vars
  /\ [](\A s \in TickSlots : paced(loopOf(s)) /\ oneAttemptEach(loopOf(s)))
  /\ [][\A s \in TickSlots : pacedStep(s)]_vars

\* the job of 1 second over @a and @b: its first tick is in its pacing
\* delay, @b still to come, while its second tick is at its attempt for @a
C36_Witness ==
  /\ ticks[1][1].job = 1
  /\ ticks[1][2].job = 1
  /\ ticks[1][1].loop.phase = "sleep"
  /\ ticks[1][1].loop.attempted = <<gA>>
  /\ ticks[1][2].loop.phase \in {"getEntity", "sendMessage"}
  /\ ticks[1][2].loop.attempted = <<gA>>
  /\ now < ticks[1][1].loop.wake
  /\ now < timers[1].createdAt + 2 * timers[1].delay + messageDelay

\* timer j is held in activeTimers
registered(j) == \E k \in DOMAIN activeTimers : activeTimers[k] = j

\* C37: the timers that can still fire are the timers held in activeTimers:
\* a timer is pushed to the list in the step that creates it, the list
\* changes only by that and by /stoptimers, a timer stops only in the step
\* that takes up a /stoptimers, which stops every timer and empties the
\* list, and a tick only starts for a timer of the list.
C37_RunningTimersRegistered ==
  /\ [](\A j \in DOMAIN timers : timers[j].active <=> registered(j))
  /\ [][ /\ Len(timers') > Len(timers)
             => /\ Len(timers') = Len(timers) + 1
                /\ activeTimers' = Append(activeTimers, Len(timers'))
                /\ timers'[Len(timers')].active
         /\ activeTimers' # activeTimers
             => Len(timers') > Len(timers) \/ stopTaken
         /\ \A j \in DOMAIN timers :
              (timers[j].active /\ ~timers'[j].active)
                => /\ stopTaken
                   /\ activeTimers' = <<>>
                   /\ \A k \in DOMAIN timers' : ~timers'[k].active
         /\ \A j \in DOMAIN timers :
              timers'[j].fires > timers[j].fires => registered(j) ]_vars

\* a first job was stopped and a second one, made after the /stoptimers, is
\* the only timer of the list and has ticked
C37_Witness ==
  /\ Len(timers) = 2
  /\ ~timers[1].active
  /\ timers[2].active
  /\ activeTimers = <<2>>
  /\ timers[2].fires >= 1

\* handler h runs a /send or a /sendmulti that has targets
delivering(h) ==
  handlers[h].pc # "idle" /\ handlers[h].reply.kind \in {"sent", "sentMulti"}

\* C38: the confirmation of a /send or a /sendmulti is attempted only when
\* every target of the command has had its delivery attempt and the last
\* attempt has finished; the confirmation is fixed when the command is taken
\* up, whatever the attempts do: /send names its target, and /sendmulti the
\* number of its parsed targets.
C38_ConfirmAfterAllAttempts ==
  /\ [](\A h \in 1..MaxInFlight :
          delivering(h)
            => /\ handlers[h].pc = "respond"
                    => /\ handlers[h].loop.phase = "end"
                       /\ handlers[h].loop.attempted = handlers[h].loop.groups
               /\ handlers[h].reply.kind = "sent"
                    => /\ handlers[h].loop.groups = <<handlers[h].reply.what>>
                       /\ handlers[h].text = txtSend => handlers[h].reply.what = gA
               /\ handlers[h].reply.kind = "sentMulti"
                    => /\ handlers[h].reply.n = Len(handlers[h].loop.groups)
                       /\ handlers[h].text = txtSendMulti => handlers[h].reply.n = 2)
  /\ [][\A h \in 1..MaxInFlight :
          (delivering(h) /\ handlers'[h].pc # "idle")
            => handlers'[h].reply = handlers[h].reply]_vars

\* a /sendmulti over @a and @b is at its confirmation for 2 groups after an
\* attempt has failed, and so is a /send for @a
C38_Witness ==
  \/ \E h \in 1..MaxInFlight :
       /\ handlers[h].pc = "respond"
       /\ handlers[h].loop.failed
       /\ handlers[h].reply = [kind |-> "sentMulti", n |-> 2, what |-> <<>>]
  \/ \E h \in 1..MaxInFlight :
       /\ handlers[h].pc = "respond"
       /\ handlers[h].loop.failed
       /\ handlers[h].reply = [kind |-> "sent", n |-> 0, what |-> gA]

\* C39: a step that returns on an outgoing message starts no handler, takes
\* no wizard step, makes no delivery attempt and no response, logs no error
\* and leaves the jobs, the timers and the clock as they were.
C39_OutgoingDoesNothing ==
  [][out'
       => /\ UNCHANGED <<now, handlers, autosendStates, activeTimers, timers, ticks,
                         created>>
          /\ logged' = NoLog]_vars

\* an outgoing message has come while the owner's wizard waits for its
\* interval, a job is running and a handler is in flight
C39_Witness ==
  /\ out
  /\ autosendStates[Owner].step = "interval"
  /\ \E j \in DOMAIN timers : timers[j].active
  /\ \E h \in 1..MaxInFlight : handlers[h].pc # "idle"

====
